---- MODULE Spec2Model ----
(***************************************************************************)
(* Model of the room / hotel creation workflow of funch-hotel-backend-v2:  *)
(* request validation, the room-create service and its repository, the     *)
(* SEO and image fan-out of the controllers, the compensating deletes,     *)
(* and the date-overlap test used by the price-tier checks.                *)
(*                                                                         *)
(* A date is an ISO "YYYY-MM-DD" string, written here <<y, m, d>>.         *)
(* new Date(s) turns it into a time value (UTC midnight of that day); the  *)
(* code compares those numbers, never the strings.                         *)
(***************************************************************************)
EXTENDS Integers, Sequences, FiniteSets, TLC

\* ------------------------------------------------------------------------
\* Bounds of the model
\* ------------------------------------------------------------------------
MaxTiers == 2     \* seasonal / override tiers per request
MaxSeo == 2       \* seo_data entries per request
MaxImages == 2    \* images per request
MaxFaults == 2    \* store calls that fail while one request is handled
MaxRequests == 3  \* requests handled one after the other

\* ------------------------------------------------------------------------
\* Dates: new Date("YYYY-MM-DD")
\* ------------------------------------------------------------------------
IsLeap(y) == (y % 4 = 0 /\ y % 100 # 0) \/ y % 400 = 0

DaysInMonth(y, m) ==
  IF m = 2 THEN (IF IsLeap(y) THEN 29 ELSE 28)
  ELSE IF m \in {4, 6, 9, 11} THEN 30 ELSE 31

RECURSIVE DaysBeforeMonth(_, _)
DaysBeforeMonth(y, m) ==
  IF m = 1 THEN 0 ELSE DaysBeforeMonth(y, m - 1) + DaysInMonth(y, m - 1)

RECURSIVE DaysBeforeYear(_)
DaysBeforeYear(y) ==
  IF y = 1970 THEN 0
  ELSE DaysBeforeYear(y - 1) + (IF IsLeap(y - 1) THEN 366 ELSE 365)

\* new Date(str) for a date-only ISO string: UTC midnight of that day.  The time value
\* is kept in minutes since the epoch (the millisecond count does not fit the
\* model checker's integers; a date-only string is a whole number of minutes).
NewDate(s) == (DaysBeforeYear(s[1]) + DaysBeforeMonth(s[1], s[2]) + (s[3] - 1)) * 1440

\* calendar order of two date strings (what the claims speak about)
DayBefore(a, b) ==
  \/ a[1] < b[1]
  \/ a[1] = b[1] /\ a[2] < b[2]
  \/ a[1] = b[1] /\ a[2] = b[2] /\ a[3] < b[3]

DayLeq(a, b) == a = b \/ DayBefore(a, b)

\* the calendar days used by the model
AllDates ==
  { <<2024, 1, 1>>, <<2024, 1, 4>>, <<2024, 1, 5>>, <<2024, 1, 10>>,
    <<2024, 2, 29>>, <<2024, 3, 1>>,
    <<2024, 12, 20>>, <<2025, 1, 1>>, <<2025, 1, 5>>, <<2025, 1, 10>> }

DateRange(s, e) == [start_date |-> s, end_date |-> e]

\* do two closed ranges of calendar days have a day in common
\* (a day lies in a range when start <= day <= end)
ShareDay(r1, r2) ==
  \E y \in 2024..2025 : \E m \in 1..12 : \E d \in 1..DaysInMonth(y, m) :
     /\ DayLeq(r1.start_date, <<y, m, d>>) /\ DayLeq(<<y, m, d>>, r1.end_date)
     /\ DayLeq(r2.start_date, <<y, m, d>>) /\ DayLeq(<<y, m, d>>, r2.end_date)

\* ------------------------------------------------------------------------
\* services/room/room-create.service.js: checkDateOverlap
\* ------------------------------------------------------------------------
checkDateOverlap_strict(range1, range2) ==
  LET start1 == NewDate(range1.start_date)
      end1 == NewDate(range1.end_date)
      start2 == NewDate(range2.start_date)
      end2 == NewDate(range2.end_date)
  IN start1 < end2 /\ start2 < end1

checkDateOverlap(range1, range2) ==
  LET start1 == NewDate(range1.start_date)
      end1 == NewDate(range1.end_date)
      start2 == NewDate(range2.start_date)
      end2 == NewDate(range2.end_date)
  IN start1 <= end2 /\ start2 <= end1


\* ------------------------------------------------------------------------
\* State
\* ------------------------------------------------------------------------
VARIABLES
  req,            \* the request body (req.body) and its route
  db,             \* the entity store: one set of rows per table
  pc,             \* position of the request in its handler chain
  createdRoomId,  \* room-create service: let createdRoomId
  ctl,            \* controller locals: created id, createdSeoIds, seoResults, seoErrors, imageResults
  cas,            \* deleteRoomCascade: index of the next table, who called it, the error it was called for
  err,            \* the error in flight (thrown, not yet answered)
  resp,           \* the HTTP response
  ops,            \* store writes issued so far, in order
  faults,         \* store calls that have failed so far
  ov,             \* a stand-alone evaluation of the overlap test
  others          \* the other requests of the run: waiting, suspended at an await, or answered

vars == <<req, db, pc, createdRoomId, ctl, cas, err, resp, ops, faults, ov, others>>

SeqsUpTo(S, n) == UNION { [1..k -> S] : k \in 0..n }

Range(f) == { f[i] : i \in DOMAIN f }

\* ------------------------------------------------------------------------
\* Errors and responses
\* ------------------------------------------------------------------------
Undefined == "undefined"
Null == "null"

NoError == [code |-> Undefined, message |-> Undefined, statusCode |-> 0]

\* new Error(message) with .code and .statusCode set
AppError(code, message, statusCode) ==
  [code |-> code, message |-> message, statusCode |-> statusCode]

\* the error object supabase returns for a failed call: a code, a message, no statusCode
StoreError(sqlstate) == [code |-> sqlstate, message |-> "store error", statusCode |-> 0]

\* SQLSTATEs a failing store call may carry
StoreErrorCodes == {"23502", "23503", "23505", "08006"}
WriteErrorCodes == {"23505", "08006"}

NoSummary == [seo_created |-> 0, seo_failed |-> 0, images_created |-> 0, images_failed |-> 0]

NoResp ==
  [status |-> 0, success |-> FALSE, message |-> Undefined, code |-> Undefined,
   names |-> <<>>, seo_metadata |-> <<>>, seo_errors |-> <<>>, image_errors |-> {},
   summary |-> NoSummary]

\* res.status(s).json({ success: false, message, error: { code } })
ErrorResponse(status, code, message) ==
  [NoResp EXCEPT !.status = status, !.code = code, !.message = message]

\* ------------------------------------------------------------------------
\* The store
\* ------------------------------------------------------------------------
NewRoomId == "r-new"      \* uuidv4() of the room created by the request
NewHotelId == "h-new"     \* uuidv4() of the hotel created by the request

\* uuidv4() of a room: NewRoomId for the first room created, and an id never
\* generated before for every later one; log is the sequence of store calls so far
RoomIdOf(n) == IF n = 0 THEN NewRoomId ELSE NewRoomId \o "-" \o ToString(n)

uuidv4(log) ==
  RoomIdOf(Cardinality({ i \in DOMAIN log :
                           log[i].op = "insert" /\ log[i].table = "rooms" /\ log[i].ok }))

InitDb ==
  [ hotels |-> { [id |-> "h1", name_th |-> "HA", name_en |-> "HA"] },
    cities |-> { "c1" },
    hotel_options |-> { "ho1" },
    hotels_cities_map |-> { [hotel_id |-> "h1", city_id |-> "c1"] },
    hotels_options_map |-> { [hotel_id |-> "h1", hotel_option_id |-> "ho1"] },
    rooms |-> { [id |-> "r1", hotel_id |-> "h1", name_th |-> "A", name_en |-> "A"] },
    room_options |-> { "o1" },
    room_options_map |-> { [room_id |-> "r1", room_option_id |-> "o1"] },
    room_base_prices |-> { [room_id |-> "r1"] },
    room_season_base_prices |->
      { [room_id |-> "r1", name |-> "T1",
         start_date |-> <<2024, 1, 1>>, end_date |-> <<2024, 1, 5>>] },
    room_override_prices |->
      { [room_id |-> "r1", name |-> "T1",
         start_date |-> <<2024, 1, 1>>, end_date |-> <<2024, 1, 5>>, is_active |-> TRUE] },
    seo_metadata |->
      { [id |-> 1, page_type |-> "room", page_id |-> "r1", slug |-> "taken", lang |-> "th"],
        [id |-> 2, page_type |-> "hotel", page_id |-> "h1", slug |-> "taken", lang |-> "th"] },
    image_assets |->
      { [id |-> 1, content_type |-> "room", content_id |-> "r1", url |-> "u1", is_cover |-> TRUE] } ]

\* supabase .single(): data when exactly one row matches, else error PGRST116
SingleFound(rows) == Cardinality(rows) = 1

\* largest id in use in a table with numeric ids
MaxId(rows) == IF rows = {} THEN 0 ELSE CHOOSE n \in { r.id : r \in rows } : \A r \in rows : r.id <= n


\* ------------------------------------------------------------------------
\* Request bodies
\* ------------------------------------------------------------------------
\* JSON values a client may send for a boolean field: true, false, "true", "yes"
JsonTrue == "true"
JsonFalse == "false"
StrTrue == "'true'"
StrYes == "'yes'"
IsActiveValues == {JsonTrue, JsonFalse, StrTrue, StrYes}

TierName(i) == IF i = 1 THEN "T1" ELSE IF i = 2 THEN "T2" ELSE IF i = 3 THEN "T3" ELSE "T4"

Jan1to5 == DateRange(<<2024, 1, 1>>, <<2024, 1, 5>>)
Jan5to10 == DateRange(<<2024, 1, 5>>, <<2024, 1, 10>>)
Peak == DateRange(<<2024, 12, 20>>, <<2025, 1, 5>>)
NewYear == DateRange(<<2025, 1, 1>>, <<2025, 1, 10>>)
Inverted == DateRange(<<2024, 1, 10>>, <<2024, 1, 1>>)

SeasonRanges == {Jan1to5, Jan5to10, Peak, NewYear, Inverted}
OverrideRanges == {Jan1to5, Jan5to10, Peak}

\* season_base_prices: a list of ranges; the tier at position i is named TierName(i)
SeasonLists ==
  { [i \in DOMAIN rs |-> [name |-> TierName(i), start_date |-> rs[i].start_date,
                          end_date |-> rs[i].end_date]] : rs \in SeqsUpTo(SeasonRanges, MaxTiers) }

OverrideLists ==
  { [i \in DOMAIN os |-> [name |-> TierName(i), start_date |-> os[i][1].start_date,
                          end_date |-> os[i][1].end_date, is_active |-> os[i][2]]]
      : os \in SeqsUpTo(OverrideRanges \X IsActiveValues, MaxTiers) }

Langs == {"th", "en"}
Slugs == {"deluxe-room", "admin", "taken"}
SeoLists == SeqsUpTo([lang : Langs, slug : Slugs], MaxSeo)

Urls == {"u1", "u2"}
\* is_cover of a request is a JSON value; rooms and hotels are sent JSON booleans
ImageLists == SeqsUpTo([url : Urls, is_cover : {JsonTrue, JsonFalse}], MaxImages)

OneSeason == << [name |-> "T1", start_date |-> Peak.start_date, end_date |-> Peak.end_date] >>
OneOverride ==
  << [name |-> "T1", start_date |-> Peak.start_date, end_date |-> Peak.end_date,
      is_active |-> JsonTrue] >>

RoomBody(ok, hotel, th, en, opts, seasons, overrides, seo, images) ==
  [kind |-> "room", fields_ok |-> ok, hotel_id |-> hotel, name_th |-> th, name_en |-> en,
   option_ids |-> opts, city_ids |-> <<>>, seasons |-> seasons, overrides |-> overrides,
   seo_data |-> seo, images |-> images]

HotelBody(ok, th, en, cities, opts, seo, images) ==
  [kind |-> "hotel", fields_ok |-> ok, hotel_id |-> Null, name_th |-> th, name_en |-> en,
   option_ids |-> opts, city_ids |-> cities, seasons |-> <<>>, overrides |-> <<>>,
   seo_data |-> seo, images |-> images]

\* requests that differ in what the pre-write checks look at
PreCheckRequests ==
  { RoomBody(ok, h, th, en, opts, <<>>, <<>>, <<>>, <<>>) :
      ok \in BOOLEAN, h \in {"h1", "h-none"}, th \in {"A", "B"}, en \in {"A", "B"},
      opts \in {<<>>, <<"o1">>, <<"o-none">>} }

\* requests that differ in their price tiers
PricingRequests ==
  { RoomBody(TRUE, "h1", "B", "B", <<"o1">>, s, <<>>, <<>>, <<>>) : s \in SeasonLists }
  \cup
  { RoomBody(TRUE, "h1", "B", "B", <<>>, <<>>, o, <<>>, <<>>) : o \in OverrideLists }

\* requests that differ in their SEO entries and images
FanoutRequests ==
  { RoomBody(TRUE, "h1", "B", "B", <<"o1">>, OneSeason, OneOverride, seo, img) :
      seo \in SeoLists, img \in ImageLists }

HotelRequests ==
  { HotelBody(ok, th, "HB", c, o, <<>>, <<>>) :
      ok \in BOOLEAN, th \in {"HA", "HB"}, c \in {<<>>, <<"c1">>, <<"c-none">>},
      o \in {<<>>, <<"ho1">>, <<"ho-none">>} }
  \cup
  { HotelBody(TRUE, "HB", "HB", <<"c1">>, <<"ho1">>, seo, img) :
      seo \in SeoLists, img \in ImageLists }

\* POST /api/seo-metadata: every entry names its page
PageIds == {"r1", Null}
SeoBatchLists ==
  SeqsUpTo([page_type : {"room", "hotel"}, page_id : PageIds, lang : Langs, slug : Slugs], MaxSeo)

SeoBody(seo) ==
  [kind |-> "seo", fields_ok |-> TRUE, hotel_id |-> Null, name_th |-> Null, name_en |-> Null,
   option_ids |-> <<>>, city_ids |-> <<>>, seasons |-> <<>>, overrides |-> <<>>,
   seo_data |-> seo, images |-> <<>>]

SeoRequests == { SeoBody(seo) : seo \in SeoBatchLists }

\* POST /api/image-collection: the entity and its images; is_cover may be sent as
\* a JSON boolean or as a string
ImageTargets == { <<"room", "r1">>, <<"hotel", "h1">>, <<"room", "r-none">> }
IsCoverValues == {JsonTrue, JsonFalse, StrTrue}
ImageBatches == SeqsUpTo([url : Urls, is_cover : IsCoverValues], MaxImages)

ImageBody(target, images) ==
  [kind |-> "image", fields_ok |-> TRUE, hotel_id |-> Null, name_th |-> Null, name_en |-> Null,
   option_ids |-> <<>>, city_ids |-> <<>>, seasons |-> <<>>, overrides |-> <<>>,
   seo_data |-> <<>>, images |-> images, content_type |-> target[1], content_id |-> target[2]]

ImageRequests == { ImageBody(t, img) : t \in ImageTargets, img \in ImageBatches }

Requests ==
  PreCheckRequests \cup PricingRequests \cup FanoutRequests \cup HotelRequests \cup SeoRequests
  \cup ImageRequests

\* ------------------------------------------------------------------------
\* validators/common.validator.js and validators/room/room-create.validator.js
\* ------------------------------------------------------------------------
\* express-validator isBoolean(): true, false, "true", "false", "1", "0", 1, 0
isBoolean(v) == v \in {JsonTrue, JsonFalse, StrTrue, "'false'", "'1'", "'0'", "1", "0"}

ErrorIf(cond, msg) == IF cond THEN <<msg>> ELSE <<>>

\* .custom() on *.end_date: if (endDate < startDate) throw
EndBeforeStart(t) == NewDate(t.end_date) < NewDate(t.start_date)

\* validateNoDuplicates(field, property)
validateNoDuplicates(array, property) ==
  Len(array) = 0 \/ Cardinality({ array[i][property] : i \in DOMAIN array }) = Len(array)

\* validateExactlyOne(field, property, value)
validateExactlyOne(array, property, value) ==
  Len(array) = 0 \/ Cardinality({ i \in DOMAIN array : array[i][property] = value }) = 1

\* validateOptionalArray(field, maxItems)
validateOptionalArray(array, maxItems) == Len(array) <= maxItems

\* the first pair of seasonal tiers, in input order, whose ranges intersect
\* (validateNoDateOverlap: imported by the room validator, defined outside the sources)
SeasonOverlapPairs(seasons) ==
  { p \in (DOMAIN seasons) \X (DOMAIN seasons) :
      /\ p[1] < p[2]
      /\ NewDate(seasons[p[1]].start_date) <= NewDate(seasons[p[2]].end_date)
      /\ NewDate(seasons[p[2]].start_date) <= NewDate(seasons[p[1]].end_date) }

FirstPair(ps) ==
  CHOOSE p \in ps : \A q \in ps : p[1] < q[1] \/ (p[1] = q[1] /\ p[2] <= q[2])

validateNoDateOverlap(seasons) ==
  IF SeasonOverlapPairs(seasons) = {} THEN <<>>
  ELSE LET p == FirstPair(SeasonOverlapPairs(seasons))
       IN << seasons[p[1]].name, seasons[p[2]].name >>

\* body("override_prices").custom(...): no two active overrides overlap
ActiveOverrideOverlap(overrides) ==
  /\ Len(overrides) >= 2
  /\ LET activeOverrides == SelectSeq(overrides, LAMBDA o : o.is_active = JsonTrue)
     IN \E i, j \in DOMAIN activeOverrides :
          /\ i < j
          /\ NewDate(activeOverrides[i].start_date) <= NewDate(activeOverrides[j].end_date)
          /\ NewDate(activeOverrides[j].start_date) <= NewDate(activeOverrides[i].end_date)

SeoImageErrors(body, dupUrlMsg) ==
  ErrorIf(~validateNoDuplicates(body.seo_data, "lang"),
          "Duplicate language entries in SEO data")
  \o ErrorIf(~validateOptionalArray(body.images, 50), "images must have maximum 50 items")
  \o ErrorIf(\E i \in DOMAIN body.images : ~isBoolean(body.images[i].is_cover),
             "images.*.is_cover must be true or false")
  \o ErrorIf(~validateExactlyOne(body.images, "is_cover", JsonTrue),
             "Exactly one image must be marked as cover")
  \o ErrorIf(~validateNoDuplicates(body.images, "url"), dupUrlMsg)

\* validateRoomCreate: the messages of the failing chains, in chain order
validateRoomCreate(body) ==
  ErrorIf(~body.fields_ok, "Invalid field")
  \o ErrorIf(~validateOptionalArray(body.seasons, 20), "season_base_prices must have maximum 20 items")
  \o ErrorIf(\E i \in DOMAIN body.seasons : EndBeforeStart(body.seasons[i]), "End date must be after start date")
  \o ErrorIf(~validateOptionalArray(body.overrides, 100), "override_prices must have maximum 100 items")
  \o ErrorIf(\E i \in DOMAIN body.overrides : EndBeforeStart(body.overrides[i]), "End date must be after start date")
  \o ErrorIf(\E i \in DOMAIN body.overrides : ~isBoolean(body.overrides[i].is_active),
             "override_prices.*.is_active must be true or false")
  \o ErrorIf(ActiveOverrideOverlap(body.overrides), "Active override date ranges overlap")
  \o ErrorIf(~validateOptionalArray(body.seo_data, 5), "seo_data must have maximum 5 items")
  \o SeoImageErrors(body, "Duplicate image URLs")

\* validators/seo/seo-metadata-create.validator.js
RESERVED_SLUGS ==
  { "admin", "api", "login", "register", "logout", "dashboard", "auth", "oauth",
    "callback", "profile", "settings", "account", "user", "users", "hotel", "hotels",
    "room", "rooms", "booking", "bookings", "search", "about", "contact", "privacy",
    "terms", "help", "support", "faq", "404", "500", "error", "static", "assets",
    "public", "private" }

validateReservedSlug(array) == \A i \in DOMAIN array : array[i].slug \notin RESERVED_SLUGS

validateSeoMetadataCreateArray(body) ==
  ErrorIf(Len(body.seo_data) < 1, "seo_data must be a non-empty array")
  \o ErrorIf(~validateReservedSlug(body.seo_data), "The slug is reserved and cannot be used")
  \o ErrorIf(~validateNoDuplicates(body.seo_data, "lang"),
             "Duplicate language entries in SEO data")

\* validators/image-collection.validator.js
getTableName(type) == IF type = "hotel" THEN "hotels" ELSE "rooms"

checkEntityExists(d, type, id) == SingleFound({ r \in d[getTableName(type)] : r.id = id })

CoverImages(images) == { i \in DOMAIN images : images[i].is_cover = JsonTrue }

validateImageCollection(d, body) ==
  ErrorIf(~checkEntityExists(d, body.content_type, body.content_id), "entity not found")
  \o ErrorIf(Len(body.images) < 1 \/ Len(body.images) > 50,
             "Images must be an array with 1-50 items")
  \o ErrorIf(\E i \in DOMAIN body.images : ~isBoolean(body.images[i].is_cover),
             "is_cover must be true or false")
  \o ErrorIf(CoverImages(body.images) = {}, "At least one image must be marked as cover")
  \o ErrorIf(Cardinality(CoverImages(body.images)) > 1, "Only one image can be marked as cover")
  \o ErrorIf(Cardinality({ body.images[i].url : i \in DOMAIN body.images }) # Len(body.images),
             "Duplicate image URLs in the same request")

\* validateHotelCreate
validateHotelCreate(body) ==
  ErrorIf(~body.fields_ok, "Invalid field")
  \o SeoImageErrors(body, "Duplicate image URLs in the same request")

\* handleValidationErrors: 400 with the first message; the body has no error.code
handleValidationErrors(errors) ==
  [NoResp EXCEPT !.status = 400, !.message = Head(errors)]


\* ------------------------------------------------------------------------
\* Controller and service locals
\* ------------------------------------------------------------------------
NoImageResults ==
  [kind |-> Null, image_assets |-> {}, errors |-> {},
   summary |-> [total |-> 0, success |-> 0, failed |-> 0], status |-> 0, code |-> Undefined]

\* locals of createImageCollection when it is called by its own endpoint
NoImg ==
  [hasExistingCover |-> FALSE, idx |-> 1, processedImages |-> <<>>, duplicateErrors |-> <<>>,
   successful |-> {}, failed |-> <<>>]

InitCtl ==
  [createdId |-> Null, createdSeoIds |-> <<>>, seoResults |-> <<>>, seoErrors |-> <<>>,
   seoIdx |-> 1, imageResults |-> NoImageResults, img |-> NoImg]

NoCas == [idx |-> 0, caller |-> Null, error |-> NoError]
NoOv == [pc |-> Null, a |-> Jan1to5, b |-> Jan1to5, result |-> FALSE]

Log(op, table, ok) == Append(ops, [op |-> op, table |-> table, ok |-> ok])

CanFail == faults < MaxFaults

\* ------------------------------------------------------------------------
\* routes/room.routes.js, routes/hotel.routes.js
\* ------------------------------------------------------------------------
\* POST /api/room: validateRoomCreate, handleValidationErrors, createRoom.
\* The result is the response of the validation stage, or NoResp when the
\* request is handed to the controller.
RoomRoute_unchecked(body) == NoResp

RoomRoute(body) ==
  IF validateNoDateOverlap(body.seasons) # <<>>
  THEN [ErrorResponse(409, "SEASON_OVERLAP", "Season date ranges overlap")
          EXCEPT !.names = validateNoDateOverlap(body.seasons)]
  ELSE IF validateRoomCreate(body) # <<>>
  THEN handleValidationErrors(validateRoomCreate(body))
  ELSE NoResp

\* POST /api/hotel: validateHotelCreate, handleValidationErrors, createHotel
HotelRoute(body) ==
  IF validateHotelCreate(body) # <<>>
  THEN handleValidationErrors(validateHotelCreate(body))
  ELSE NoResp

\* POST /api/seo-metadata: validateSeoMetadataCreateArray, handleValidationErrors,
\* createSeoMetadata.  The controller's own test for an empty seo_data comes after
\* the validator has refused it.
SeoRoute(body) ==
  IF validateSeoMetadataCreateArray(body) # <<>>
  THEN handleValidationErrors(validateSeoMetadataCreateArray(body))
  ELSE NoResp

\* POST /api/image-collection: validateImageCollection, handleValidationErrors,
\* createImageCollection
ImageRoute(d, body) ==
  IF validateImageCollection(d, body) # <<>>
  THEN handleValidationErrors(validateImageCollection(d, body))
  ELSE NoResp

Validate ==
  /\ pc = "validate"
  /\ LET r == IF req.kind = "room" THEN RoomRoute(req)
              ELSE IF req.kind = "hotel" THEN HotelRoute(req)
              ELSE IF req.kind = "seo" THEN SeoRoute(req)
              ELSE ImageRoute(db, req)
     IN IF r # NoResp
        THEN /\ resp' = r
             /\ pc' = "done"
        ELSE /\ resp' = resp
             /\ pc' = IF req.kind = "room" THEN "svcHotelExists"
                      ELSE IF req.kind = "hotel" THEN "hotelChecks"
                      ELSE IF req.kind = "seo" THEN "ctlSeo"
                      ELSE "imgGetExisting"
  /\ UNCHANGED <<req, db, createdRoomId, ctl, cas, err, ops, faults, ov, others>>

\* ------------------------------------------------------------------------
\* repositories/room/room-create.repository.js
\* ------------------------------------------------------------------------
hotelExists(d, hotelId) == SingleFound({ h \in d.hotels : h.id = hotelId })

roomNameExists(d, nameTh, nameEn, hotelId) ==
  SingleFound({ r \in d.rooms :
                  r.hotel_id = hotelId /\ (r.name_th = nameTh \/ r.name_en = nameEn) })

validateRoomOptionIds(d, optionIds) ==
  Len(optionIds) = 0
  \/ Cardinality({ o \in d.room_options : o \in Range(optionIds) }) = Len(optionIds)

handleRoomError(error) ==
  IF error.code = "23502" THEN AppError("MISSING_FIELD", "Required field is missing", 0)
  ELSE IF error.code = "23505" THEN AppError("DUPLICATE_ROOM", "Room name already exists", 0)
  ELSE IF error.code = "23503" THEN AppError("INVALID_REFERENCE", "Invalid hotel reference", 0)
  ELSE error

\* the value a boolean column (room_override_prices.is_active, image_assets.is_cover)
\* takes for a JSON value
StoredBoolean(v) == v \in {JsonTrue, StrTrue, "'1'", "1"}

\* override.is_active ?? true
OrDefaultTrue(v) == IF v \in {Undefined, Null} THEN JsonTrue ELSE v

RoomRow(body, id) ==
  [id |-> id, hotel_id |-> body.hotel_id, name_th |-> body.name_th, name_en |-> body.name_en]

OptionRows(roomId, optionIds) ==
  { [room_id |-> roomId, room_option_id |-> optionIds[i]] : i \in DOMAIN optionIds }

SeasonRows(roomId, seasonPrices) ==
  { [room_id |-> roomId, name |-> seasonPrices[i].name,
     start_date |-> seasonPrices[i].start_date, end_date |-> seasonPrices[i].end_date]
      : i \in DOMAIN seasonPrices }

OverrideRows(roomId, overridePrices) ==
  { [room_id |-> roomId, name |-> overridePrices[i].name,
     start_date |-> overridePrices[i].start_date, end_date |-> overridePrices[i].end_date,
     is_active |-> StoredBoolean(OrDefaultTrue(overridePrices[i].is_active))]
      : i \in DOMAIN overridePrices }

\* deleteRoomCascade: the tables, in the order they are emptied
CascadeTables_noImages ==
  << "room_override_prices", "room_season_base_prices", "room_base_prices",
     "room_options_map", "seo_metadata", "rooms" >>

CascadeTables_roomFirst ==
  << "rooms", "room_override_prices", "room_season_base_prices", "room_base_prices",
     "room_options_map", "seo_metadata", "image_assets" >>

CascadeTables ==
  << "room_override_prices", "room_season_base_prices", "room_base_prices",
     "room_options_map", "seo_metadata", "image_assets", "rooms" >>

\* one delete of deleteRoomCascade
DeleteRows_keepsRoom(d, table, roomId) ==
  IF table = "rooms" THEN d
  ELSE IF table = "seo_metadata"
  THEN [d EXCEPT !.seo_metadata = { r \in @ : ~(r.page_type = "room" /\ r.page_id = roomId) }]
  ELSE IF table = "image_assets"
  THEN [d EXCEPT !.image_assets = { r \in @ : ~(r.content_type = "room" /\ r.content_id = roomId) }]
  ELSE [d EXCEPT ![table] = { r \in @ : r.room_id # roomId }]

DeleteRows_allRoomSeo(d, table, roomId) ==
  IF table = "rooms" THEN [d EXCEPT !.rooms = { r \in @ : r.id # roomId }]
  ELSE IF table = "seo_metadata"
  THEN [d EXCEPT !.seo_metadata = { r \in @ : r.page_type # "room" }]
  ELSE IF table = "image_assets"
  THEN [d EXCEPT !.image_assets = { r \in @ : ~(r.content_type = "room" /\ r.content_id = roomId) }]
  ELSE [d EXCEPT ![table] = { r \in @ : r.room_id # roomId }]

DeleteRows(d, table, roomId) ==
  IF table = "rooms" THEN [d EXCEPT !.rooms = { r \in @ : r.id # roomId }]
  ELSE IF table = "seo_metadata"
  THEN [d EXCEPT !.seo_metadata = { r \in @ : ~(r.page_type = "room" /\ r.page_id = roomId) }]
  ELSE IF table = "image_assets"
  THEN [d EXCEPT !.image_assets = { r \in @ : ~(r.content_type = "room" /\ r.content_id = roomId) }]
  ELSE [d EXCEPT ![table] = { r \in @ : r.room_id # roomId }]

\* deleteRoomCascade's catch block: the error a throwing delete leaves in flight
\* ("Don't throw - this is cleanup": the rollback error is logged, the pending one stays)
CascadeCatch_rethrow(rollbackError, pending) == rollbackError

CascadeCatch(rollbackError, pending) == pending


\* ------------------------------------------------------------------------
\* services/room/room-create.service.js: createRoom
\* ------------------------------------------------------------------------
\* where the controller continues once the primary entity is written
AfterPrimary == IF Len(req.seo_data) > 0 THEN "ctlSeo" ELSE "ctlImages"

\* a read of the service fails: the store error is thrown as it is
SvcReadFault(at) ==
  /\ pc = at
  /\ CanFail
  /\ faults' = faults + 1
  /\ err' = StoreError("08006")
  /\ pc' = "svcCatch"
  /\ UNCHANGED <<req, db, createdRoomId, ctl, cas, resp, ops, ov, others>>

\* 1. Validate hotel exists
SvcHotelExists ==
  /\ pc = "svcHotelExists"
  /\ IF hotelExists(db, req.hotel_id)
     THEN pc' = "svcRoomNameExists" /\ err' = err
     ELSE pc' = "svcCatch" /\ err' = AppError("HOTEL_NOT_FOUND", "Hotel not found", 404)
  /\ UNCHANGED <<req, db, createdRoomId, ctl, cas, resp, ops, faults, ov, others>>

\* 2. Check if room name already exists in this hotel
SvcRoomNameExists ==
  /\ pc = "svcRoomNameExists"
  /\ IF roomNameExists(db, req.name_th, req.name_en, req.hotel_id)
     THEN pc' = "svcCatch"
          /\ err' = AppError("ROOM_EXISTS", "Room name already exists in this hotel", 409)
     ELSE pc' = "svcValidateOptions" /\ err' = err
  /\ UNCHANGED <<req, db, createdRoomId, ctl, cas, resp, ops, faults, ov, others>>

\* 3. Validate room option IDs if provided
SvcValidateOptions ==
  /\ pc = "svcValidateOptions"
  /\ IF Len(req.option_ids) > 0 /\ ~validateRoomOptionIds(db, req.option_ids)
     THEN pc' = "svcCatch"
          /\ err' = AppError("INVALID_OPTION_ID", "One or more room option IDs are invalid", 400)
     ELSE pc' = "svcCreateRoom" /\ err' = err
  /\ UNCHANGED <<req, db, createdRoomId, ctl, cas, resp, ops, faults, ov, others>>

SvcReadFails ==
  \E at \in {"svcHotelExists", "svcRoomNameExists", "svcValidateOptions"} : SvcReadFault(at)

\* 4. Create room
SvcCreateRoom ==
  /\ pc = "svcCreateRoom"
  /\ db' = [db EXCEPT !.rooms = @ \cup {RoomRow(req, uuidv4(ops))}]
  /\ createdRoomId' = uuidv4(ops)
  /\ ops' = Log("insert", "rooms", TRUE)
  /\ pc' = "svcCreateRoomOptions"
  /\ UNCHANGED <<req, ctl, cas, err, resp, faults, ov, others>>

SvcCreateRoomFails ==
  /\ pc = "svcCreateRoom"
  /\ CanFail
  /\ \E c \in StoreErrorCodes : err' = handleRoomError(StoreError(c))
  /\ faults' = faults + 1
  /\ ops' = Log("insert", "rooms", FALSE)
  /\ pc' = "svcCatch"
  /\ UNCHANGED <<req, db, createdRoomId, ctl, cas, resp, ov, others>>

\* the dependent writes of steps 5 to 8, in the order the service issues them
SvcWriteSteps ==
  << "svcCreateRoomOptions", "svcCreateBasePrice", "svcCreateSeasonPrices",
     "svcCreateOverridePrices" >>

SvcTable(step) ==
  IF step = "svcCreateRoomOptions" THEN "room_options_map"
  ELSE IF step = "svcCreateBasePrice" THEN "room_base_prices"
  ELSE IF step = "svcCreateSeasonPrices" THEN "room_season_base_prices"
  ELSE "room_override_prices"

\* the rows a step inserts ({} when the step is skipped)
SvcRows(step) ==
  IF step = "svcCreateRoomOptions" THEN OptionRows(createdRoomId, req.option_ids)
  ELSE IF step = "svcCreateBasePrice" THEN { [room_id |-> createdRoomId] }
  ELSE IF step = "svcCreateSeasonPrices" THEN SeasonRows(createdRoomId, req.seasons)
  ELSE OverrideRows(createdRoomId, req.overrides)

SvcNextStep_skipsTiers(step) ==
  IF step = "svcCreateRoomOptions" THEN "svcCreateBasePrice" ELSE "svcReturn"

SvcNextStep(step) ==
  IF step = "svcCreateRoomOptions" THEN "svcCreateBasePrice"
  ELSE IF step = "svcCreateBasePrice" THEN "svcCreateSeasonPrices"
  ELSE IF step = "svcCreateSeasonPrices" THEN "svcCreateOverridePrices"
  ELSE "svcReturn"

\* 5.-8. options mapping, base price (required), season prices, override prices
SvcWrite ==
  /\ pc \in Range(SvcWriteSteps)
  /\ IF SvcRows(pc) = {}
     THEN db' = db /\ ops' = ops
     ELSE /\ db' = [db EXCEPT ![SvcTable(pc)] = @ \cup SvcRows(pc)]
          /\ ops' = Log("insert", SvcTable(pc), TRUE)
  /\ pc' = SvcNextStep(pc)
  /\ UNCHANGED <<req, createdRoomId, ctl, cas, err, resp, faults, ov, others>>

SvcWriteFails ==
  /\ pc \in Range(SvcWriteSteps)
  /\ SvcRows(pc) # {}
  /\ CanFail
  /\ \E c \in WriteErrorCodes : err' = StoreError(c)
  /\ faults' = faults + 1
  /\ ops' = Log("insert", SvcTable(pc), FALSE)
  /\ pc' = "svcCatch"
  /\ UNCHANGED <<req, db, createdRoomId, ctl, cas, resp, ov, others>>

\* 10. Return created data: the controller records roomResult.room.id
SvcReturn ==
  /\ pc = "svcReturn"
  /\ ctl' = [ctl EXCEPT !.createdId = createdRoomId]
  /\ pc' = AfterPrimary
  /\ UNCHANGED <<req, db, createdRoomId, cas, err, resp, ops, faults, ov, others>>

\* catch (error) { if (createdRoomId) await deleteRoomCascade(createdRoomId); throw error }
SvcCatch_always ==
  /\ pc = "svcCatch"
  /\ pc' = "cascade" /\ cas' = [idx |-> 1, caller |-> "service", error |-> err]
  /\ UNCHANGED <<req, db, createdRoomId, ctl, err, resp, ops, faults, ov, others>>

SvcCatch ==
  /\ pc = "svcCatch"
  /\ IF createdRoomId # Null
     THEN pc' = "cascade" /\ cas' = [idx |-> 1, caller |-> "service", error |-> err]
     ELSE pc' = "ctlCatch" /\ cas' = cas
  /\ UNCHANGED <<req, db, createdRoomId, ctl, err, resp, ops, faults, ov, others>>

\* ------------------------------------------------------------------------
\* deleteRoomCascade(roomId), one table per step
\* ------------------------------------------------------------------------
CascadeRoomId == IF cas.caller = "service" THEN createdRoomId ELSE ctl.createdId

\* the cascade is over: the service rethrows to the controller, the controller answers
CascadeEnd == IF cas.caller = "service" THEN "ctlCatch" ELSE "ctlError"

CascadeAdvance ==
  IF cas.idx < Len(CascadeTables)
  THEN pc' = "cascade" /\ cas' = [cas EXCEPT !.idx = @ + 1]
  ELSE pc' = CascadeEnd /\ cas' = [cas EXCEPT !.idx = 0]

CascadeDelete ==
  /\ pc = "cascade"
  /\ db' = DeleteRows(db, CascadeTables[cas.idx], CascadeRoomId)
  /\ ops' = Log("delete", CascadeTables[cas.idx], TRUE)
  /\ CascadeAdvance
  /\ UNCHANGED <<req, createdRoomId, ctl, err, resp, faults, ov, others>>

\* the delete comes back with an error object: the result is not looked at
CascadeDeleteFails ==
  /\ pc = "cascade"
  /\ CanFail
  /\ faults' = faults + 1
  /\ ops' = Log("delete", CascadeTables[cas.idx], FALSE)
  /\ CascadeAdvance
  /\ UNCHANGED <<req, db, createdRoomId, ctl, err, resp, ov, others>>

\* the delete throws: the catch block logs it and the remaining tables are skipped
CascadeDeleteThrows ==
  /\ pc = "cascade"
  /\ CanFail
  /\ faults' = faults + 1
  /\ ops' = Log("delete", CascadeTables[cas.idx], FALSE)
  /\ err' = CascadeCatch(StoreError("08006"), err)
  /\ pc' = CascadeEnd
  /\ cas' = [cas EXCEPT !.idx = 0]
  /\ UNCHANGED <<req, db, createdRoomId, ctl, resp, ov, others>>


\* ------------------------------------------------------------------------
\* repositories/seo/seo-metadata-create.repository.js,
\* services/seo/seo-metadata-create.service.js
\* ------------------------------------------------------------------------
seoMetadataExistsBySlug(d, pageType, slug, lang) ==
  SingleFound({ r \in d.seo_metadata : r.page_type = pageType /\ r.slug = slug /\ r.lang = lang })

handleSeoError(error) ==
  IF error.code = "23502" THEN AppError("MISSING_FIELD", "Required field is missing", 0)
  ELSE IF error.code = "23505"
  THEN AppError("DUPLICATE_SLUG", "SEO metadata with this slug already exists", 0)
  ELSE IF error.code = "23503" THEN AppError("INVALID_PAGE_REFERENCE", "Invalid page reference", 0)
  ELSE error

SeoRow(d, seoData) ==
  [id |-> MaxId(d.seo_metadata) + 1, page_type |-> seoData.page_type,
   page_id |-> seoData.page_id, slug |-> seoData.slug, lang |-> seoData.lang]

\* createSeoMetadata(seoData) with a store that answers every call:
\* the error thrown (NoError when the record was created) and the store afterwards
createSeoMetadata(d, seoData) ==
  IF seoMetadataExistsBySlug(d, seoData.page_type, seoData.slug, seoData.lang)
  THEN [error |-> AppError("SLUG_EXISTS", "This slug already exists", 409), db |-> d,
        row |-> SeoRow(d, seoData)]
  ELSE [error |-> NoError, db |-> [d EXCEPT !.seo_metadata = @ \cup {SeoRow(d, seoData)}],
        row |-> SeoRow(d, seoData)]

\* ------------------------------------------------------------------------
\* repositories/image/image-collection.repository.js,
\* services/image/image-collection.service.js
\* ------------------------------------------------------------------------
getExistingImages(d, contentType, contentId) ==
  { r \in d.image_assets : r.content_type = contentType /\ r.content_id = contentId }

removeCoverStatus(d, contentType, contentId) ==
  [d EXCEPT !.image_assets =
     { IF r.content_type = contentType /\ r.content_id = contentId /\ r.is_cover
       THEN [r EXCEPT !.is_cover = FALSE] ELSE r : r \in @ }]

checkDuplicateImageUrl(d, url, contentType, contentId) ==
  SingleFound({ r \in d.image_assets :
                  r.url = url /\ r.content_type = contentType /\ r.content_id = contentId })

getErrorCode(error) ==
  IF error.code = "23505" THEN "DUPLICATE_IMAGE"
  ELSE IF error.code = "23503" THEN "INVALID_REFERENCE"
  ELSE IF error.code = "23502" THEN "MISSING_FIELD"
  ELSE "INSERT_FAILED"

\* createImageCollection({content_type, content_id, images}); failAt are the positions
\* of the images whose insert the store refuses with storeError.
\* The result: the error thrown (NoError if none), the value returned, the store afterwards.
createImageCollection(d, contentType, contentId, images, failAt, storeError) ==
  LET existingImages == getExistingImages(d, contentType, contentId)
      newCoverImage == \E i \in DOMAIN images : images[i].is_cover = JsonTrue
      hasExistingCover == \E r \in existingImages : r.is_cover = TRUE
      d1 == IF newCoverImage /\ hasExistingCover
            THEN removeCoverStatus(d, contentType, contentId) ELSE d
      duplicates == { i \in DOMAIN images :
                        checkDuplicateImageUrl(d1, images[i].url, contentType, contentId) }
      processed == (DOMAIN images) \ duplicates
      successful == processed \ failAt
      failed == processed \cap failAt
      rows == { [id |-> MaxId(d1.image_assets) + i, content_type |-> contentType,
                 content_id |-> contentId, url |-> images[i].url,
                 is_cover |-> StoredBoolean(images[i].is_cover)] : i \in successful }
      d2 == [d1 EXCEPT !.image_assets = @ \cup rows]
      allFailed ==
        { [url |-> images[i].url, code |-> "DUPLICATE_IMAGE"] : i \in duplicates }
        \cup { [url |-> images[i].url, code |-> getErrorCode(storeError)] : i \in failed }
      totalFailed == Cardinality(duplicates) + Cardinality(failed)
  IN IF processed = {} /\ duplicates # {}
     THEN [error |-> AppError("ALL_DUPLICATES", "All images already exist for this entity", 409),
           value |-> NoImageResults, db |-> d1]
     ELSE IF successful = {}
     THEN [error |-> AppError("ALL_FAILED", "Failed to create any image assets", 400),
           value |-> NoImageResults, db |-> d2]
     ELSE [error |-> NoError,
           value |-> [kind |-> "result", image_assets |-> rows, errors |-> allFailed,
                      summary |-> [total |-> Len(images), success |-> Cardinality(successful),
                                   failed |-> totalFailed],
                      status |-> IF totalFailed > 0 THEN 207 ELSE 201, code |-> Undefined],
           db |-> d2]

\* ------------------------------------------------------------------------
\* controllers/room/room-create.controller.js, controllers/hotel/hotel-create.controller.js
\* ------------------------------------------------------------------------
PageType == req.kind

\* 2. Create SEO metadata: the entry at seoIdx, with page_type and page_id filled in
\* The standalone batch passes page_type and page_id of the entry itself.
SeoEntry ==
  IF req.kind = "seo"
  THEN [page_type |-> req.seo_data[ctl.seoIdx].page_type,
        page_id |-> req.seo_data[ctl.seoIdx].page_id,
        slug |-> req.seo_data[ctl.seoIdx].slug, lang |-> req.seo_data[ctl.seoIdx].lang]
  ELSE [page_type |-> PageType, page_id |-> ctl.createdId,
        slug |-> req.seo_data[ctl.seoIdx].slug, lang |-> req.seo_data[ctl.seoIdx].lang]

AfterSeoEntry ==
  IF ctl.seoIdx < Len(req.seo_data) THEN "ctlSeo"
  ELSE IF req.kind = "seo" THEN "batchCheck"
  ELSE "ctlImages"

\* seoErrors.push({ lang, error, code }); the standalone batch pushes the slug too
SeoFailed_unreported(error) == [ctl EXCEPT !.seoIdx = @ + 1]

SeoFailed(error) ==
  [ctl EXCEPT !.seoErrors =
                Append(@, IF req.kind = "seo"
                          THEN [lang |-> SeoEntry.lang, slug |-> SeoEntry.slug, code |-> error.code]
                          ELSE [lang |-> SeoEntry.lang, code |-> error.code]),
              !.seoIdx = @ + 1]

CtlSeo ==
  /\ pc = "ctlSeo"
  /\ LET r == createSeoMetadata(db, SeoEntry)
     IN IF r.error = NoError
        THEN /\ db' = r.db
             /\ ops' = Log("insert", "seo_metadata", TRUE)
             /\ ctl' = [ctl EXCEPT !.seoResults = Append(@, r.row),
                                   !.createdSeoIds = Append(@, r.row.id),
                                   !.seoIdx = @ + 1]
        ELSE /\ db' = db
             /\ ops' = ops
             /\ ctl' = SeoFailed(r.error)
  /\ pc' = AfterSeoEntry
  /\ UNCHANGED <<req, createdRoomId, cas, err, resp, faults, ov, others>>

\* the insert of the SEO record is refused by the store
CtlSeoInsertFails ==
  /\ pc = "ctlSeo"
  /\ createSeoMetadata(db, SeoEntry).error = NoError
  /\ CanFail
  /\ faults' = faults + 1
  /\ ops' = Log("insert", "seo_metadata", FALSE)
  /\ \E c \in WriteErrorCodes : ctl' = SeoFailed(handleSeoError(StoreError(c)))
  /\ pc' = AfterSeoEntry
  /\ UNCHANGED <<req, db, createdRoomId, cas, err, resp, ov, others>>

\* 3. Create image collection (if provided); a throw of the service is kept as
\* imageResults = { error, code }
ImageCall(failAt, storeError) ==
  createImageCollection(db, PageType, ctl.createdId, req.images, failAt, storeError)

ImageCatch(error) == [NoImageResults EXCEPT !.kind = "error", !.code = error.code]

CtlImages ==
  /\ pc = "ctlImages"
  /\ IF Len(req.images) > 0
     THEN LET r == ImageCall({}, NoError)
          IN /\ db' = r.db
             /\ ops' = Log("insert", "image_assets", TRUE)
             /\ ctl' = [ctl EXCEPT !.imageResults =
                          IF r.error = NoError THEN r.value ELSE ImageCatch(r.error)]
     ELSE db' = db /\ ops' = ops /\ ctl' = ctl
  /\ pc' = "ctlCheck"
  /\ UNCHANGED <<req, createdRoomId, cas, err, resp, faults, ov, others>>

\* some image inserts are refused by the store
CtlImagesFail ==
  /\ pc = "ctlImages"
  /\ Len(req.images) > 0
  /\ \E failAt \in (SUBSET DOMAIN req.images) \ {{}} : \E c \in WriteErrorCodes :
       /\ faults + Cardinality(failAt) <= MaxFaults
       /\ faults' = faults + Cardinality(failAt)
       /\ LET r == ImageCall(failAt, StoreError(c))
          IN /\ db' = r.db
             /\ ops' = Log("insert", "image_assets", r.error = NoError)
             /\ ctl' = [ctl EXCEPT !.imageResults =
                          IF r.error = NoError THEN r.value ELSE ImageCatch(r.error)]
  /\ pc' = "ctlCheck"
  /\ UNCHANGED <<req, createdRoomId, cas, err, resp, ov, others>>

\* controllers/seo/seo-metadata-create.controller.js
\* 4. the response of the batch with its summary
BatchResponse(c) ==
  [status |-> IF Len(c.seoErrors) > 0 THEN 207 ELSE 201,
   success |-> TRUE,
   message |-> "Created SEO metadata",
   code |-> Undefined,
   names |-> <<>>,
   seo_metadata |-> c.seoResults,
   seo_errors |-> c.seoErrors,
   image_errors |-> {},
   summary |-> [total |-> Len(req.seo_data), success |-> Len(c.seoResults),
                failed |-> Len(c.seoErrors)]]

\* 3. results.length === 0: ALL_FAILED is thrown and passed to next(error)
BatchCheck ==
  /\ pc = "batchCheck"
  /\ IF Len(ctl.seoResults) = 0
     THEN /\ err' = AppError("ALL_FAILED", "Failed to create any SEO metadata", 400)
          /\ pc' = "ctlError"
          /\ resp' = resp
     ELSE /\ resp' = BatchResponse(ctl)
          /\ pc' = "done"
          /\ err' = err
  /\ UNCHANGED <<req, db, createdRoomId, ctl, cas, ops, faults, ov, others>>

\* 6. Determine status code
hasPartialFailure(seoErrors, imageResults) ==
  Len(seoErrors) > 0 \/ (imageResults.kind = "result" /\ imageResults.errors # {})

\* 5. Prepare response
SuccessResponse(c) ==
  [status |-> IF hasPartialFailure(c.seoErrors, c.imageResults) THEN 207 ELSE 201,
   success |-> TRUE,
   message |-> "created successfully",
   code |-> Undefined,
   names |-> <<>>,
   seo_metadata |-> c.seoResults,
   seo_errors |-> c.seoErrors,
   image_errors |-> IF c.imageResults.kind = "result" THEN c.imageResults.errors ELSE {},
   summary |-> [seo_created |-> Len(c.seoResults), seo_failed |-> Len(c.seoErrors),
                images_created |-> c.imageResults.summary.success,
                images_failed |-> c.imageResults.summary.failed]]

\* 4. Check if all SEO failed (critical error)
AllSeoFailed_orImages ==
  (Len(req.seo_data) > 0 /\ Len(ctl.seoResults) = 0) \/ ctl.imageResults.kind = "error"

AllSeoFailed == Len(req.seo_data) > 0 /\ Len(ctl.seoResults) = 0

CtlCheck ==
  /\ pc = "ctlCheck"
  /\ IF AllSeoFailed
     THEN /\ err' = AppError(Undefined, "Failed to create any SEO metadata", 0)
          /\ pc' = "ctlCatch"
          /\ resp' = resp
     ELSE /\ resp' = SuccessResponse(ctl)
          /\ pc' = "done"
          /\ err' = err
  /\ UNCHANGED <<req, db, createdRoomId, ctl, cas, ops, faults, ov, others>>


\* catch (error) of the controllers: the rollback.  createdSeoIds is empty whenever
\* the block runs (the service threw, or no SEO record was created), so the delete
\* of the SEO records by id removes nothing.
CtlCatch_rollsBackAgain ==
  /\ pc = "ctlCatch"
  /\ db' = IF Len(ctl.createdSeoIds) > 0
           THEN [db EXCEPT !.seo_metadata = { r \in @ : r.id \notin Range(ctl.createdSeoIds) }]
           ELSE db
  /\ IF createdRoomId = Null /\ ctl.createdId = Null
     THEN pc' = "ctlError" /\ cas' = cas
     ELSE IF req.kind = "room"
     THEN pc' = "cascade" /\ cas' = [idx |-> 1, caller |-> "controller", error |-> err]
     ELSE pc' = "hotelRollback" /\ cas' = cas
  /\ UNCHANGED <<req, createdRoomId, ctl, err, resp, ops, faults, ov, others>>

CtlCatch ==
  /\ pc = "ctlCatch"
  /\ db' = IF Len(ctl.createdSeoIds) > 0
           THEN [db EXCEPT !.seo_metadata = { r \in @ : r.id \notin Range(ctl.createdSeoIds) }]
           ELSE db
  /\ IF ctl.createdId = Null
     THEN pc' = "ctlError" /\ cas' = cas
     ELSE IF req.kind = "room"
     THEN pc' = "cascade" /\ cas' = [idx |-> 1, caller |-> "controller", error |-> err]
     ELSE pc' = "hotelRollback" /\ cas' = cas
  /\ UNCHANGED <<req, createdRoomId, ctl, err, resp, ops, faults, ov, others>>

\* createHotel: await supabase.from("hotels").delete().eq("id", createdHotelId)
HotelRollback ==
  /\ pc = "hotelRollback"
  /\ db' = [db EXCEPT !.hotels = { h \in @ : h.id # ctl.createdId }]
  /\ ops' = Log("delete", "hotels", TRUE)
  /\ pc' = "ctlError"
  /\ UNCHANGED <<req, createdRoomId, ctl, cas, err, resp, faults, ov, others>>

\* the delete fails: its error is not looked at, a throw is caught and logged
HotelRollbackFails ==
  /\ pc = "hotelRollback"
  /\ CanFail
  /\ faults' = faults + 1
  /\ ops' = Log("delete", "hotels", FALSE)
  /\ pc' = "ctlError"
  /\ UNCHANGED <<req, db, createdRoomId, ctl, cas, err, resp, ov, others>>

\* middlewares/error-handler.middleware.js
errorHandler(e) ==
  ErrorResponse(IF e.statusCode # 0 THEN e.statusCode ELSE 500,
                IF e.code # Undefined THEN e.code ELSE "SERVER_ERROR",
                IF e.message # Undefined THEN e.message ELSE "A system error has occurred.")

\* createRoom: known errors are answered by the controller, the others by next(error);
\* createHotel: always next(error)
CtlError ==
  /\ pc = "ctlError"
  /\ resp' = IF req.kind = "room" /\ err.statusCode # 0
             THEN ErrorResponse(err.statusCode, err.code, err.message)
             ELSE errorHandler(err)
  /\ pc' = "done"
  /\ UNCHANGED <<req, db, createdRoomId, ctl, cas, err, ops, faults, ov, others>>

\* ------------------------------------------------------------------------
\* createImageCollection of the controller and of services/image/image-collection.service.js,
\* one store call per step
\* ------------------------------------------------------------------------
\* 1.-3. get the existing images; is a new cover sent while a cover exists
ImgGetExisting ==
  /\ pc = "imgGetExisting"
  /\ LET existingImages == getExistingImages(db, req.content_type, req.content_id)
         hasExistingCover == \E r \in existingImages : r.is_cover = TRUE
         newCoverImage == \E i \in DOMAIN req.images : req.images[i].is_cover = JsonTrue
     IN /\ ctl' = [ctl EXCEPT !.img.hasExistingCover = hasExistingCover]
        /\ pc' = IF newCoverImage /\ hasExistingCover THEN "imgRemoveCover" ELSE "imgCheckDup"
  /\ UNCHANGED <<req, db, createdRoomId, cas, err, resp, ops, faults, ov, others>>

\* 3. remove the old cover status
ImgRemoveCover ==
  /\ pc = "imgRemoveCover"
  /\ db' = removeCoverStatus(db, req.content_type, req.content_id)
  /\ ops' = Log("update", "image_assets", TRUE)
  /\ pc' = "imgCheckDup"
  /\ UNCHANGED <<req, createdRoomId, ctl, cas, err, resp, faults, ov, others>>

\* 4. one image of the loop: a duplicate URL is reported, the others are processed;
\* 5. after the last image: ALL_DUPLICATES if nothing is left to process
ImgCheckDup ==
  /\ pc = "imgCheckDup"
  /\ LET image == req.images[ctl.img.idx]
         isDuplicate ==
           checkDuplicateImageUrl(db, image.url, req.content_type, req.content_id)
         duplicateErrors ==
           IF isDuplicate
           THEN Append(ctl.img.duplicateErrors, [url |-> image.url, code |-> "DUPLICATE_IMAGE"])
           ELSE ctl.img.duplicateErrors
         processedImages ==
           IF isDuplicate THEN ctl.img.processedImages
           ELSE Append(ctl.img.processedImages, image)
         last == ctl.img.idx = Len(req.images)
     IN /\ ctl' = [ctl EXCEPT !.img.duplicateErrors = duplicateErrors,
                              !.img.processedImages = processedImages,
                              !.img.idx = IF last THEN 1 ELSE @ + 1]
        /\ IF ~last THEN pc' = "imgCheckDup" /\ err' = err
           ELSE IF Len(processedImages) = 0 /\ Len(duplicateErrors) > 0
           THEN /\ pc' = "imgCatch"
                /\ err' = AppError("ALL_DUPLICATES", "All images already exist for this entity", 409)
           ELSE pc' = "imgInsert" /\ err' = err
  /\ UNCHANGED <<req, db, createdRoomId, cas, resp, ops, faults, ov, others>>

\* a read or the update of createImageCollection fails: the store error is thrown
ImgCallFails ==
  /\ pc \in {"imgGetExisting", "imgRemoveCover", "imgCheckDup"}
  /\ CanFail
  /\ faults' = faults + 1
  /\ err' = StoreError("08006")
  /\ pc' = "imgCatch"
  /\ UNCHANGED <<req, db, createdRoomId, ctl, cas, resp, ops, ov, others>>

\* 7.-9. the value returned, or the ALL_FAILED error thrown
ImageResult_countsInsertsOnly(images, successful, duplicateErrors, failed) ==
  IF Cardinality(successful) = 0
  THEN [error |-> AppError("ALL_FAILED", "Failed to create any image assets", 400),
        value |-> NoImageResults]
  ELSE [error |-> NoError,
        value |-> [kind |-> "result", image_assets |-> successful,
                   errors |-> Range(duplicateErrors) \cup Range(failed),
                   summary |-> [total |-> Len(images), success |-> Cardinality(successful),
                                failed |-> Len(failed)],
                   status |-> IF Len(failed) > 0 THEN 207 ELSE 201,
                   code |-> Undefined]]

ImageResult(images, successful, duplicateErrors, failed) ==
  IF Cardinality(successful) = 0
  THEN [error |-> AppError("ALL_FAILED", "Failed to create any image assets", 400),
        value |-> NoImageResults]
  ELSE [error |-> NoError,
        value |-> [kind |-> "result", image_assets |-> successful,
                   errors |-> Range(duplicateErrors) \cup Range(failed),
                   summary |-> [total |-> Len(images), success |-> Cardinality(successful),
                                failed |-> Len(duplicateErrors) + Len(failed)],
                   status |-> IF Len(duplicateErrors) + Len(failed) > 0 THEN 207 ELSE 201,
                   code |-> Undefined]]

\* after the insert of the image at idx: the next insert, or the end of the service
AfterImgInsert(successful, failed) ==
  LET r == ImageResult(req.images, successful, ctl.img.duplicateErrors, failed)
      last == ctl.img.idx = Len(ctl.img.processedImages)
  IN /\ ctl' = [ctl EXCEPT !.img.successful = successful, !.img.failed = failed,
                           !.img.idx = @ + 1,
                           !.imageResults = IF last /\ r.error = NoError THEN r.value ELSE @]
     /\ IF ~last THEN pc' = "imgInsert" /\ err' = err
        ELSE IF r.error # NoError THEN pc' = "imgCatch" /\ err' = r.error
        ELSE pc' = "imgRespond" /\ err' = err

ImageRowAt(i) ==
  [id |-> MaxId(db.image_assets) + 1, content_type |-> req.content_type,
   content_id |-> req.content_id, url |-> ctl.img.processedImages[i].url,
   is_cover |-> StoredBoolean(ctl.img.processedImages[i].is_cover)]

\* 6. createImageAssets: the insert of one processed image
ImgInsert ==
  /\ pc = "imgInsert"
  /\ db' = [db EXCEPT !.image_assets = @ \cup {ImageRowAt(ctl.img.idx)}]
  /\ ops' = Log("insert", "image_assets", TRUE)
  /\ AfterImgInsert(ctl.img.successful \cup {ImageRowAt(ctl.img.idx)}, ctl.img.failed)
  /\ UNCHANGED <<req, createdRoomId, cas, resp, faults, ov, others>>

\* the insert is refused by the store: results.failed.push({ url, error, code })
ImgInsertFails ==
  /\ pc = "imgInsert"
  /\ CanFail
  /\ faults' = faults + 1
  /\ ops' = Log("insert", "image_assets", FALSE)
  /\ \E c \in WriteErrorCodes :
       AfterImgInsert(ctl.img.successful,
                      Append(ctl.img.failed,
                             [url |-> ctl.img.processedImages[ctl.img.idx].url,
                              code |-> getErrorCode(StoreError(c))]))
  /\ UNCHANGED <<req, db, createdRoomId, cas, resp, ov, others>>

\* res.status(result.status || 201).json({ success: true, ... })
ImgRespond ==
  /\ pc = "imgRespond"
  /\ resp' = [status |-> ctl.imageResults.status,
              success |-> TRUE,
              message |-> "Created images",
              code |-> Undefined,
              names |-> <<>>,
              seo_metadata |-> <<>>,
              seo_errors |-> <<>>,
              image_errors |-> ctl.imageResults.errors,
              summary |-> ctl.imageResults.summary]
  /\ pc' = "done"
  /\ UNCHANGED <<req, db, createdRoomId, ctl, cas, err, ops, faults, ov, others>>

\* catch (error): known errors are answered by the controller, the others by next(error)
ImgCatch ==
  /\ pc = "imgCatch"
  /\ resp' = IF err.statusCode # 0
             THEN ErrorResponse(err.statusCode, err.code, err.message)
             ELSE errorHandler(err)
  /\ pc' = "done"
  /\ UNCHANGED <<req, db, createdRoomId, ctl, cas, err, ops, faults, ov, others>>

\* ------------------------------------------------------------------------
\* services/hotel/hotel-create.service.js, repositories/hotel/hotel-create.repository.js
\* ------------------------------------------------------------------------
hotelNameExists(d, nameTh, nameEn) ==
  SingleFound({ h \in d.hotels : h.name_th = nameTh \/ h.name_en = nameEn })

validateCityIds(d, cityIds) ==
  Len(cityIds) = 0 \/ Cardinality({ c \in d.cities : c \in Range(cityIds) }) = Len(cityIds)

validateHotelOptionIds(d, optionIds) ==
  Len(optionIds) = 0
  \/ Cardinality({ o \in d.hotel_options : o \in Range(optionIds) }) = Len(optionIds)

handleHotelError(error) ==
  IF error.code = "23502" THEN AppError("MISSING_FIELD", "Required field is missing", 0)
  ELSE IF error.code = "23505" THEN AppError("DUPLICATE_HOTEL", "Hotel name already exists", 0)
  ELSE IF error.code = "23503"
  THEN AppError("INVALID_REFERENCE", "Invalid city or option reference", 0)
  ELSE error

\* service steps 2 to 4: the first failing check, NoError if all pass
HotelCheckError(d, body) ==
  IF hotelNameExists(d, body.name_th, body.name_en)
  THEN AppError("HOTEL_EXISTS", "Hotel name already exists", 409)
  ELSE IF ~validateCityIds(d, body.city_ids)
  THEN AppError("INVALID_CITY_ID", "One or more city IDs are invalid", 400)
  ELSE IF ~validateHotelOptionIds(d, body.option_ids)
  THEN AppError("INVALID_OPTION_ID", "One or more hotel option IDs are invalid", 400)
  ELSE NoError

HotelChecks ==
  /\ pc = "hotelChecks"
  /\ IF HotelCheckError(db, req) = NoError
     THEN pc' = "hotelInsert" /\ err' = err
     ELSE pc' = "ctlCatch" /\ err' = HotelCheckError(db, req)
  /\ UNCHANGED <<req, db, createdRoomId, ctl, cas, resp, ops, faults, ov, others>>

HotelInsert ==
  /\ pc = "hotelInsert"
  /\ db' = [db EXCEPT !.hotels = @ \cup
              {[id |-> NewHotelId, name_th |-> req.name_th, name_en |-> req.name_en]}]
  /\ ops' = Log("insert", "hotels", TRUE)
  /\ pc' = "hotelCityMap"
  /\ UNCHANGED <<req, createdRoomId, ctl, cas, err, resp, faults, ov, others>>

HotelInsertFails ==
  /\ pc = "hotelInsert"
  /\ CanFail
  /\ faults' = faults + 1
  /\ \E c \in StoreErrorCodes : err' = handleHotelError(StoreError(c))
  /\ ops' = Log("insert", "hotels", FALSE)
  /\ pc' = "ctlCatch"
  /\ UNCHANGED <<req, db, createdRoomId, ctl, cas, resp, ov, others>>

\* Create city mappings if provided
HotelCityMap ==
  /\ pc = "hotelCityMap"
  /\ IF Len(req.city_ids) > 0
     THEN /\ db' = [db EXCEPT !.hotels_cities_map = @ \cup
                      { [hotel_id |-> NewHotelId, city_id |-> req.city_ids[i]]
                          : i \in DOMAIN req.city_ids }]
          /\ ops' = Log("insert", "hotels_cities_map", TRUE)
     ELSE db' = db /\ ops' = ops
  /\ pc' = "hotelOptionMap"
  /\ UNCHANGED <<req, createdRoomId, ctl, cas, err, resp, faults, ov, others>>

\* cityError: rollback by deleting the hotel, then throw CITY_MAPPING_ERROR
HotelCityMapFails ==
  /\ pc = "hotelCityMap"
  /\ Len(req.city_ids) > 0
  /\ CanFail
  /\ faults' = faults + 1
  /\ db' = [db EXCEPT !.hotels = { h \in @ : h.id # NewHotelId }]
  /\ ops' = Append(Log("insert", "hotels_cities_map", FALSE),
                   [op |-> "delete", table |-> "hotels", ok |-> TRUE])
  /\ err' = AppError("CITY_MAPPING_ERROR", "Failed to create city mappings", 0)
  /\ pc' = "ctlCatch"
  /\ UNCHANGED <<req, createdRoomId, ctl, cas, resp, ov, others>>

\* Create hotel options mappings if provided; the service returns the hotel and the
\* controller records newHotel.id
HotelOptionMap ==
  /\ pc = "hotelOptionMap"
  /\ IF Len(req.option_ids) > 0
     THEN /\ db' = [db EXCEPT !.hotels_options_map = @ \cup
                      { [hotel_id |-> NewHotelId, hotel_option_id |-> req.option_ids[i]]
                          : i \in DOMAIN req.option_ids }]
          /\ ops' = Log("insert", "hotels_options_map", TRUE)
     ELSE db' = db /\ ops' = ops
  /\ ctl' = [ctl EXCEPT !.createdId = NewHotelId]
  /\ pc' = AfterPrimary
  /\ UNCHANGED <<req, createdRoomId, cas, err, resp, faults, ov, others>>

\* optionError: rollback by deleting the city mappings and the hotel, then throw
HotelOptionMapFails ==
  /\ pc = "hotelOptionMap"
  /\ Len(req.option_ids) > 0
  /\ CanFail
  /\ faults' = faults + 1
  /\ db' = [db EXCEPT !.hotels_cities_map = { m \in @ : m.hotel_id # NewHotelId },
                      !.hotels = { h \in @ : h.id # NewHotelId }]
  /\ ops' = Append(Append(Log("insert", "hotels_options_map", FALSE),
                          [op |-> "delete", table |-> "hotels_cities_map", ok |-> TRUE]),
                   [op |-> "delete", table |-> "hotels", ok |-> TRUE])
  /\ err' = AppError("OPTION_MAPPING_ERROR", "Failed to create option mappings", 0)
  /\ pc' = "ctlCatch"
  /\ UNCHANGED <<req, createdRoomId, ctl, cas, resp, ov, others>>

\* ------------------------------------------------------------------------
\* Specification of one creation request
\* ------------------------------------------------------------------------
Init ==
  /\ req \in Requests
  /\ db = InitDb
  /\ pc = "validate"
  /\ createdRoomId = Null
  /\ ctl = InitCtl
  /\ cas = NoCas
  /\ err = NoError
  /\ resp = NoResp
  /\ ops = <<>>
  /\ faults = 0
  /\ ov = NoOv
  /\ others = <<>>

Next ==
  \/ Validate
  \/ SvcHotelExists \/ SvcRoomNameExists \/ SvcValidateOptions \/ SvcReadFails
  \/ SvcCreateRoom \/ SvcCreateRoomFails
  \/ SvcWrite \/ SvcWriteFails \/ SvcReturn \/ SvcCatch
  \/ CascadeDelete \/ CascadeDeleteFails \/ CascadeDeleteThrows
  \/ CtlSeo \/ CtlSeoInsertFails \/ CtlImages \/ CtlImagesFail \/ CtlCheck
  \/ BatchCheck
  \/ ImgGetExisting \/ ImgRemoveCover \/ ImgCheckDup \/ ImgCallFails
  \/ ImgInsert \/ ImgInsertFails \/ ImgRespond \/ ImgCatch
  \/ CtlCatch \/ CtlError
  \/ HotelChecks \/ HotelInsert \/ HotelInsertFails
  \/ HotelCityMap \/ HotelCityMapFails \/ HotelOptionMap \/ HotelOptionMapFails
  \/ HotelRollback \/ HotelRollbackFails

Spec == Init /\ [][Next]_vars

\* ------------------------------------------------------------------------
\* Specification of the overlap test on its own
\* ------------------------------------------------------------------------
AllRanges == { DateRange(s, e) : s \in AllDates, e \in AllDates }

InitOverlap ==
  /\ ov \in [pc : {"call"}, a : AllRanges, b : AllRanges, result : {FALSE}]
  /\ req = RoomBody(TRUE, "h1", "B", "B", <<>>, <<>>, <<>>, <<>>, <<>>)
  /\ db = InitDb
  /\ pc = "done"
  /\ createdRoomId = Null
  /\ ctl = InitCtl
  /\ cas = NoCas
  /\ err = NoError
  /\ resp = NoResp
  /\ ops = <<>>
  /\ faults = 0
  /\ others = <<>>

EvalOverlap ==
  /\ ov.pc = "call"
  /\ ov' = [ov EXCEPT !.pc = "return", !.result = checkDateOverlap(ov.a, ov.b)]
  /\ UNCHANGED <<req, db, pc, createdRoomId, ctl, cas, err, resp, ops, faults, others>>

NextOverlap == EvalOverlap

SpecOverlap == InitOverlap /\ [][NextOverlap]_vars

\* ------------------------------------------------------------------------
\* services/room/room-create.service.js: checkRoomDateOverlaps, called with a
\* room of the store and proposed tiers
\* ------------------------------------------------------------------------
getExistingSeasonPrices(d, roomId) == { r \in d.room_season_base_prices : r.room_id = roomId }

getExistingOverridePrices(d, roomId) ==
  { r \in d.room_override_prices : r.room_id = roomId /\ r.is_active = TRUE }

\* the error object of the first new season that overlaps an existing one, or Null
checkSeasonOverlap(newSeasons, existingSeasons) ==
  IF Len(newSeasons) = 0 THEN Null
  ELSE IF \E i \in DOMAIN newSeasons : \E e \in existingSeasons :
            checkDateOverlap(newSeasons[i], e)
  THEN "SEASON_OVERLAP"
  ELSE Null

\* only the new overrides with is_active === true are compared
checkOverrideOverlap(newOverrides, existingOverrides) ==
  IF Len(newOverrides) = 0 THEN Null
  ELSE IF \E i \in DOMAIN newOverrides : \E e \in existingOverrides :
            newOverrides[i].is_active = JsonTrue /\ checkDateOverlap(newOverrides[i], e)
  THEN "OVERRIDE_OVERLAP"
  ELSE Null

\* the code of the error thrown, or "true" for the value returned
checkRoomDateOverlaps(d, roomId, seasonPrices, overridePrices) ==
  IF Len(seasonPrices) > 0
     /\ checkSeasonOverlap(seasonPrices, getExistingSeasonPrices(d, roomId)) # Null
  THEN checkSeasonOverlap(seasonPrices, getExistingSeasonPrices(d, roomId))
  ELSE IF Len(overridePrices) > 0
          /\ checkOverrideOverlap(overridePrices, getExistingOverridePrices(d, roomId)) # Null
  THEN checkOverrideOverlap(overridePrices, getExistingOverridePrices(d, roomId))
  ELSE "true"

ProposedOverrides ==
  { o \in OverrideLists : \A i \in DOMAIN o : o[i].is_active \in {JsonTrue, JsonFalse} }

InitRoomOverlap ==
  /\ ov \in [pc : {"call"}, roomId : {"r1", "r-none"}, seasons : SeasonLists,
              overrides : ProposedOverrides, result : {Null}]
  /\ req = RoomBody(TRUE, "h1", "B", "B", <<>>, <<>>, <<>>, <<>>, <<>>)
  /\ db = InitDb
  /\ pc = "done"
  /\ createdRoomId = Null
  /\ ctl = InitCtl
  /\ cas = NoCas
  /\ err = NoError
  /\ resp = NoResp
  /\ ops = <<>>
  /\ faults = 0
  /\ others = <<>>

EvalRoomOverlap ==
  /\ ov.pc = "call"
  /\ ov' = [ov EXCEPT !.pc = "return",
                      !.result = checkRoomDateOverlaps(db, ov.roomId, ov.seasons, ov.overrides)]
  /\ UNCHANGED <<req, db, pc, createdRoomId, ctl, cas, err, resp, ops, faults, others>>

NextRoomOverlap == EvalRoomOverlap

SpecRoomOverlap == InitRoomOverlap /\ [][NextRoomOverlap]_vars

\* ------------------------------------------------------------------------
\* Specification of room-creation requests handled one at a time, on a store
\* that answers every call
\* ------------------------------------------------------------------------
SeqRequests ==
  { RoomBody(TRUE, "h1", th, en, <<"o1">>, <<>>, <<>>, <<>>, <<>>) :
      th \in {"A", "B"}, en \in {"A", "B"} }

\* an answered request, with the store as it was when the answer was sent
Answered ==
  [req |-> req, resp |-> resp, createdRoomId |-> createdRoomId, db |-> db]

InitSeq ==
  /\ req \in SeqRequests
  /\ db = InitDb
  /\ pc = "validate"
  /\ createdRoomId = Null
  /\ ctl = InitCtl
  /\ cas = NoCas
  /\ err = NoError
  /\ resp = NoResp
  /\ ops = <<>>
  /\ faults = 0
  /\ ov = NoOv
  /\ others = <<>>

\* the next POST /api/room arrives after the answer to the one before
NextRequest ==
  /\ pc = "done"
  /\ Len(others) + 1 < MaxRequests
  /\ others' = Append(others, Answered)
  /\ req' \in SeqRequests
  /\ pc' = "validate"
  /\ createdRoomId' = Null
  /\ ctl' = InitCtl
  /\ cas' = NoCas
  /\ err' = NoError
  /\ resp' = NoResp
  /\ UNCHANGED <<db, ops, faults, ov>>

NextSeq ==
  \/ Validate
  \/ SvcHotelExists \/ SvcRoomNameExists \/ SvcValidateOptions
  \/ SvcCreateRoom \/ SvcWrite \/ SvcReturn \/ SvcCatch
  \/ CtlImages \/ CtlCheck \/ CtlCatch \/ CtlError
  \/ NextRequest

SpecSeq == InitSeq /\ [][NextSeq]_vars

\* ------------------------------------------------------------------------
\* Specification of two concurrent room-creation requests with the same names
\* and hotel, on a store that enforces the uniqueness of room names on insert
\* ------------------------------------------------------------------------
ConcSeoLists ==
  { <<>>, << [lang |-> "th", slug |-> "deluxe-room"] >>, << [lang |-> "th", slug |-> "taken"] >> }

ConcImageLists == { <<>>, << [url |-> "u1", is_cover |-> JsonTrue] >> }

ConcRequests ==
  { RoomBody(TRUE, "h1", "B", "B", <<"o1">>, OneSeason, <<>>, seo, img) :
      seo \in ConcSeoLists, img \in ConcImageLists }

\* a request suspended at an await: its locals
Suspended ==
  [req |-> req, pc |-> pc, createdRoomId |-> createdRoomId, ctl |-> ctl, cas |-> cas,
   err |-> err, resp |-> resp]

InitConc ==
  /\ req \in ConcRequests
  /\ db = InitDb
  /\ pc = "validate"
  /\ createdRoomId = Null
  /\ ctl = InitCtl
  /\ cas = NoCas
  /\ err = NoError
  /\ resp = NoResp
  /\ ops = <<>>
  /\ faults = 0
  /\ ov = NoOv
  /\ \E r \in ConcRequests :
       others = << [req |-> r, pc |-> "validate", createdRoomId |-> Null, ctl |-> InitCtl,
                    cas |-> NoCas, err |-> NoError, resp |-> NoResp] >>

\* the event loop resumes the other request
Yield ==
  /\ Len(others) = 1
  /\ others[1].pc # "done"
  /\ others' = << Suspended >>
  /\ req' = others[1].req
  /\ pc' = others[1].pc
  /\ createdRoomId' = others[1].createdRoomId
  /\ ctl' = others[1].ctl
  /\ cas' = others[1].cas
  /\ err' = others[1].err
  /\ resp' = others[1].resp
  /\ UNCHANGED <<db, ops, faults, ov>>

\* the unique constraint of the store on the names of the rooms of a hotel
RoomNameTaken(d, row) ==
  \E r \in d.rooms :
    r.hotel_id = row.hotel_id /\ (r.name_th = row.name_th \/ r.name_en = row.name_en)

\* 4. Create room, on the store with the constraint: the insert without it
SvcCreateRoomUnique_unenforced ==
  /\ pc = "svcCreateRoom"
  /\ db' = [db EXCEPT !.rooms = @ \cup {RoomRow(req, uuidv4(ops))}]
  /\ createdRoomId' = uuidv4(ops)
  /\ ops' = Log("insert", "rooms", TRUE)
  /\ pc' = "svcCreateRoomOptions"
  /\ UNCHANGED <<req, ctl, cas, err, resp, faults, ov, others>>

\* 4. Create room, on the store with the constraint:
\* if (error) handleRoomError(error) throws DUPLICATE_ROOM for SQLSTATE 23505
SvcCreateRoomUnique ==
  /\ pc = "svcCreateRoom"
  /\ IF RoomNameTaken(db, RoomRow(req, uuidv4(ops)))
     THEN /\ err' = handleRoomError(StoreError("23505"))
          /\ ops' = Log("insert", "rooms", FALSE)
          /\ pc' = "svcCatch"
          /\ UNCHANGED <<db, createdRoomId>>
     ELSE /\ db' = [db EXCEPT !.rooms = @ \cup {RoomRow(req, uuidv4(ops))}]
          /\ createdRoomId' = uuidv4(ops)
          /\ ops' = Log("insert", "rooms", TRUE)
          /\ pc' = "svcCreateRoomOptions"
          /\ err' = err
  /\ UNCHANGED <<req, ctl, cas, resp, faults, ov, others>>

NextConc ==
  \/ Validate
  \/ SvcHotelExists \/ SvcRoomNameExists \/ SvcValidateOptions
  \/ SvcCreateRoomUnique \/ SvcWrite \/ SvcReturn \/ SvcCatch
  \/ CtlSeo \/ CtlImages \/ CtlCheck \/ CtlCatch \/ CascadeDelete \/ CtlError
  \/ Yield

SpecConc == InitConc /\ [][NextConc]_vars

\* ------------------------------------------------------------------------
\* Two image-collection requests for one entity in flight together, each batch
\* with one cover image
\* ------------------------------------------------------------------------
ConcImageTargets == { <<"room", "r1">>, <<"hotel", "h1">> }

ConcImageBatches ==
  { << [url |-> u, is_cover |-> JsonTrue] >> : u \in Urls }
  \cup { << [url |-> p[1], is_cover |-> JsonTrue], [url |-> p[2], is_cover |-> JsonFalse] >> :
           p \in { q \in Urls \X Urls : q[1] # q[2] } }

InitImgConc ==
  /\ \E t \in ConcImageTargets :
       /\ \E img \in ConcImageBatches : req = ImageBody(t, img)
       /\ \E img \in ConcImageBatches :
            others = << [req |-> ImageBody(t, img), pc |-> "validate", createdRoomId |-> Null,
                         ctl |-> InitCtl, cas |-> NoCas, err |-> NoError, resp |-> NoResp] >>
  /\ db = InitDb
  /\ pc = "validate"
  /\ createdRoomId = Null
  /\ ctl = InitCtl
  /\ cas = NoCas
  /\ err = NoError
  /\ resp = NoResp
  /\ ops = <<>>
  /\ faults = 0
  /\ ov = NoOv

NextImgConc ==
  \/ Validate
  \/ ImgGetExisting \/ ImgRemoveCover \/ ImgCheckDup \/ ImgInsert \/ ImgRespond \/ ImgCatch
  \/ Yield

SpecImgConc == InitImgConc /\ [][NextImgConc]_vars

\* ------------------------------------------------------------------------
\* Properties of room creation: rollback
\* ------------------------------------------------------------------------
Finished == pc = "done"

FailedInsert(table) ==
  \E i \in DOMAIN ops : ops[i] = [op |-> "insert", table |-> table, ok |-> FALSE]

DeleteIssued == \E i \in DOMAIN ops : ops[i].op = "delete"

AllDeletesSucceeded == \A i \in DOMAIN ops : ops[i].op = "delete" => ops[i].ok

DependentTables ==
  {"room_options_map", "room_base_prices", "room_season_base_prices", "room_override_prices"}

\* the rows the store holds for a room id: the room, its option links, its price tiers
RoomRowsLeft(id) ==
  { r \in db.rooms : r.id = id }
  \cup UNION { { r \in db[t] : r.room_id = id } : t \in DependentTables }

ImageRowsLeft(contentType, id) ==
  { r \in db.image_assets : r.content_type = contentType /\ r.content_id = id }

\* C1: in room creation, when a write after the room row has failed (option links,
\* base price, seasonal tiers or override tiers) and every compensating delete has
\* succeeded, the finished request leaves no room row, no option-link row and no
\* price-tier row for the generated room id.
C1_FullRollback ==
  ( /\ Finished
    /\ req.kind = "room"
    /\ \E t \in DependentTables : FailedInsert(t)
    /\ AllDeletesSucceeded )
  => RoomRowsLeft(NewRoomId) = {}

\* the base-price insert failed after the room and its option link were written,
\* and the seven deletes of the cascade all succeeded
C1_Witness ==
  /\ Finished
  /\ req.kind = "room"
  /\ FailedInsert("room_base_prices")
  /\ \E i \in DOMAIN ops : ops[i] = [op |-> "insert", table |-> "room_options_map", ok |-> TRUE]
  /\ Cardinality({ i \in DOMAIN ops : ops[i].op = "delete" /\ ops[i].ok }) = 7
  /\ AllDeletesSucceeded
  /\ RoomRowsLeft(NewRoomId) = {}

\* the case of C2: SEO entries were requested, each was attempted, none was created
AllSeoEntriesFailed ==
  /\ Finished
  /\ req.kind = "room"
  /\ ctl.createdId # Null
  /\ Len(req.seo_data) > 0
  /\ ctl.seoIdx > Len(req.seo_data)
  /\ Len(ctl.seoResults) = 0

IsErrorResponse == resp.status >= 400 /\ ~resp.success

NothingLeftOfRoom ==
  RoomRowsLeft(NewRoomId) = {} /\ ImageRowsLeft("room", NewRoomId) = {}

C3_OriginalErrorReturned ==
  (Finished /\ req.kind = "room" /\ createdRoomId # Null /\ ~resp.success)
  => /\ cas.caller # Null
     /\ resp.message = cas.error.message
     /\ cas.error.code # Undefined => resp.code = cas.error.code
     /\ \A t \in DependentTables :
          FailedInsert(t) => (resp.code \in WriteErrorCodes /\ resp.status = 500)

\* the base-price insert failed with a unique violation, then a delete of the
\* cascade failed: the response still carries the unique violation
C3_Witness ==
  /\ Finished
  /\ req.kind = "room"
  /\ createdRoomId # Null
  /\ FailedInsert("room_base_prices")
  /\ ~AllDeletesSucceeded
  /\ resp.code = "23505"
  /\ resp.status = 500

\* ------------------------------------------------------------------------
\* Properties of the fan-out: SEO entries and images
\* ------------------------------------------------------------------------
SeoEntryFailed == Len(ctl.seoErrors) > 0

\* an image was refused, or the whole batch call threw
ImageFailed == ctl.imageResults.kind = "error" \/ ctl.imageResults.summary.failed > 0

PrimaryRetained ==
  IF req.kind = "room"
  THEN \E r \in db.rooms : r.id = NewRoomId
  ELSE \E h \in db.hotels : h.id = NewHotelId

\* C4: a room or hotel creation answers 201 only if no requested SEO entry and no
\* requested image failed; when the primary entity is retained and an SEO entry or
\* an image failed (the failure of the whole image batch included), the status is
\* 207 and the summary count of the failed collection is above zero.
C4_StatusReflectsFailures ==
  Finished =>
    /\ resp.status = 201 => (~SeoEntryFailed /\ ~ImageFailed)
    /\ (resp.success /\ PrimaryRetained /\ (SeoEntryFailed \/ ImageFailed)) =>
         /\ resp.status = 207
         /\ SeoEntryFailed => resp.summary.seo_failed > 0
         /\ ImageFailed => resp.summary.images_failed > 0

\* the case of C5: the image batch call threw while the SEO phase did not fail
ImageBatchThrew ==
  /\ Finished
  /\ ctl.imageResults.kind = "error"
  /\ Len(req.seo_data) = 0 \/ Len(ctl.seoResults) > 0

\* the rows the service wrote for the primary entity are all in the store
PrimaryRowsKept ==
  IF req.kind = "room"
  THEN /\ RoomRow(req, NewRoomId) \in db.rooms
       /\ \A i \in DOMAIN req.option_ids :
            [room_id |-> NewRoomId, room_option_id |-> req.option_ids[i]] \in db.room_options_map
       /\ \E r \in db.room_base_prices : r.room_id = NewRoomId
       /\ \A i \in DOMAIN req.seasons :
            \E r \in db.room_season_base_prices :
               r.room_id = NewRoomId /\ r.name = req.seasons[i].name
       /\ \A i \in DOMAIN req.overrides :
            \E r \in db.room_override_prices :
               r.room_id = NewRoomId /\ r.name = req.overrides[i].name
  ELSE /\ \E h \in db.hotels : h.id = NewHotelId
       /\ \A i \in DOMAIN req.city_ids :
            [hotel_id |-> NewHotelId, city_id |-> req.city_ids[i]] \in db.hotels_cities_map
       /\ \A i \in DOMAIN req.option_ids :
            [hotel_id |-> NewHotelId, hotel_option_id |-> req.option_ids[i]]
              \in db.hotels_options_map

SeoRecordsKept == \A i \in DOMAIN ctl.seoResults : ctl.seoResults[i] \in db.seo_metadata

\* C5: if the image batch call throws during room or hotel creation while at least
\* one requested SEO entry succeeded or none was requested, no compensating delete
\* is issued, the primary entity with its price tiers and option links and the
\* created SEO records remain, and the response is a 2xx.
C5_ImageFailureKeepsEntity ==
  ImageBatchThrew =>
    /\ ~DeleteIssued
    /\ PrimaryRowsKept
    /\ SeoRecordsKept
    /\ resp.status \in 200..299
    /\ resp.success

\* a room with a season, an override, an option link and one created SEO record
\* whose only image was refused by the store
C5_Witness ==
  /\ ImageBatchThrew
  /\ req.kind = "room"
  /\ Len(ctl.seoResults) > 0
  /\ ctl.imageResults.code = "ALL_FAILED"
  /\ Len(req.seasons) > 0 /\ Len(req.overrides) > 0 /\ Len(req.option_ids) > 0
  /\ PrimaryRowsKept
  /\ resp.status \in 200..299

ReservedEntries == { i \in DOMAIN req.seo_data : req.seo_data[i].slug \in RESERVED_SLUGS }

\* C6: POST /api/room with two seo_data entries of which exactly one uses a reserved
\* slug answers 207, with exactly one record in seo_metadata, exactly one entry in
\* seo_errors naming the language of the rejected entry, and the room retained.
\* Stated for a request that is valid otherwise and whose other slug is not in use,
\* on a store that answers every call.
C6_ReservedSlugRejected ==
  ( /\ Finished
    /\ req.kind = "room"
    /\ faults = 0
    /\ ctl.createdId # Null
    /\ Len(req.seo_data) = 2
    /\ Cardinality(ReservedEntries) = 1
    /\ \A i \in (DOMAIN req.seo_data) \ ReservedEntries :
         ~\E r \in InitDb.seo_metadata :
            r.slug = req.seo_data[i].slug /\ r.lang = req.seo_data[i].lang )
  => /\ resp.status = 207
     /\ Len(resp.seo_metadata) = 1
     /\ Len(resp.seo_errors) = 1
     /\ \A i \in ReservedEntries : resp.seo_errors[1].lang = req.seo_data[i].lang
     /\ PrimaryRetained

\* ------------------------------------------------------------------------
\* Properties of the price tiers: date ranges
\* ------------------------------------------------------------------------
\* the pairs of tiers of a list that have a calendar day in common
SharingPairs(tiers) ==
  { p \in (DOMAIN tiers) \X (DOMAIN tiers) : p[1] < p[2] /\ ShareDay(tiers[p[1]], tiers[p[2]]) }

NothingWritten == db = InitDb /\ ops = <<>>

ActiveSharingPairs(overrides) ==
  { p \in SharingPairs(overrides) :
      overrides[p[1]].is_active = JsonTrue /\ overrides[p[2]].is_active = JsonTrue }

\* C8: a room-creation payload is rejected with OVERRIDE_OVERLAP if and only if two
\* of its override tiers with is_active = true share a calendar day; an override
\* with is_active = false never causes a rejection.
C8_OverrideOverlapRejected ==
  (Finished /\ req.kind = "room")
  => (resp.code = "OVERRIDE_OVERLAP" <=> ActiveSharingPairs(req.overrides) # {})

NewOverrideRows == { r \in db.room_override_prices : r.room_id = NewRoomId }

\* C9: after a successful room creation, no two override tiers stored for the room
\* with is_active true have intersecting date ranges, whatever accepted value of
\* is_active the request carried.
C9_StoredActiveOverridesDisjoint ==
  (Finished /\ req.kind = "room" /\ resp.success)
  => \A r1, r2 \in NewOverrideRows :
       (r1 # r2 /\ r1.is_active /\ r2.is_active) => ~ShareDay(r1, r2)

\* ------------------------------------------------------------------------
\* Properties of checkDateOverlap
\* ------------------------------------------------------------------------
IsValidRange(r) == DayLeq(r.start_date, r.end_date)

\* C10: checkDateOverlap(a, b) is true exactly when a.start <= b.end and
\* b.start <= a.end in calendar order; it is symmetric, true for (a, a) when
\* a.start <= a.end, true for two ranges that share only a boundary day, false for
\* two ranges of which one ends before the other starts, and for well-formed ranges
\* it is true exactly when the ranges have a day in common.
C10_OverlapTest ==
  ov.pc = "return" =>
    /\ ov.result <=> ( /\ DayLeq(ov.a.start_date, ov.b.end_date)
                       /\ DayLeq(ov.b.start_date, ov.a.end_date) )
    /\ ov.result <=> checkDateOverlap(ov.b, ov.a)
    /\ (ov.a = ov.b /\ IsValidRange(ov.a)) => ov.result
    /\ (IsValidRange(ov.a) /\ IsValidRange(ov.b) /\ ov.a.end_date = ov.b.start_date)
         => ov.result
    /\ (IsValidRange(ov.a) /\ IsValidRange(ov.b) /\ DayBefore(ov.a.end_date, ov.b.start_date))
         => ~ov.result
    /\ (IsValidRange(ov.a) /\ IsValidRange(ov.b)) => (ov.result <=> ShareDay(ov.a, ov.b))

\* 2024-01-01..2024-01-05 against 2024-01-05..2024-01-10: one shared boundary day
C10_Witness ==
  /\ ov.pc = "return"
  /\ ov.a = Jan1to5
  /\ ov.b = Jan5to10
  /\ ov.result

\* ------------------------------------------------------------------------
\* Properties of the failure paths
\* ------------------------------------------------------------------------
\* the store refused the insert of the primary row with a unique violation
StoreRefusedDuplicate ==
  /\ Finished
  /\ \/ req.kind = "room" /\ FailedInsert("rooms") /\ err.code = "DUPLICATE_ROOM"
     \/ req.kind = "hotel" /\ FailedInsert("hotels") /\ err.code = "DUPLICATE_HOTEL"

\* C14: if the name pre-check passes but the store refuses the room (hotel) insert
\* with a unique violation, the caller receives the conflict error of the
\* pre-check: code ROOM_EXISTS (HOTEL_EXISTS) with status 409.
C14_StoreConflictIsExistsError ==
  StoreRefusedDuplicate =>
    /\ resp.status = 409
    /\ resp.code = IF req.kind = "room" THEN "ROOM_EXISTS" ELSE "HOTEL_EXISTS"

\* room creation was refused by the payload validation or by a check of steps 1 to 3
PreWriteFailure ==
  /\ Finished
  /\ req.kind = "room"
  /\ ~resp.success
  /\ \/ resp.code \in {"SEASON_OVERLAP", "HOTEL_NOT_FOUND", "ROOM_EXISTS", "INVALID_OPTION_ID"}
     \/ resp.status = 400 /\ resp.code = Undefined

\* C15: if room creation fails in pre-write validation (payload validation,
\* HOTEL_NOT_FOUND, ROOM_EXISTS or INVALID_OPTION_ID), no insert, update or delete
\* is issued: the store after the request equals the store before it.
C15_PreWriteFailureWritesNothing == PreWriteFailure => NothingWritten

\* the name of the room is taken: ROOM_EXISTS, and the store is as it was
C15_Witness ==
  /\ PreWriteFailure
  /\ resp.code = "ROOM_EXISTS"
  /\ resp.status = 409
  /\ createdRoomId = Null
  /\ NothingWritten

DeletesIssued == SelectSeq(ops, LAMBDA o : o.op = "delete")

RollbackOrder ==
  << "room_override_prices", "room_season_base_prices", "room_base_prices",
     "room_options_map", "seo_metadata", "image_assets", "rooms" >>

\* C16: whenever a room-creation rollback runs, its deletes are issued in the
\* order override tiers, seasonal tiers, base price, option links, SEO records,
\* image records, room row; nothing is deleted after the room row.
C16_RollbackOrder ==
  req.kind = "room" =>
    /\ Len(DeletesIssued) <= Len(RollbackOrder)
    /\ \A i \in DOMAIN DeletesIssued : DeletesIssued[i].table = RollbackOrder[i]

\* a rollback that ran to its end: seven deletes, the room row last
C16_Witness ==
  /\ Finished
  /\ req.kind = "room"
  /\ Len(DeletesIssued) = 7
  /\ DeletesIssued[1].table = "room_override_prices"
  /\ DeletesIssued[7].table = "rooms"

\* all SEO entries of a hotel creation failed after the hotel row was written
HotelTerminalFailure ==
  /\ Finished
  /\ req.kind = "hotel"
  /\ ctl.createdId # Null
  /\ Len(req.seo_data) > 0
  /\ Len(ctl.seoResults) = 0

\* C17: when hotel creation ends in a terminal failure after the hotel row was
\* written (all requested SEO entries failed), no record referencing the generated
\* hotel id remains: no city link, no option link, no SEO record, no image record.
C17_HotelRollbackLeavesNothing ==
  HotelTerminalFailure =>
    /\ { m \in db.hotels_cities_map : m.hotel_id = NewHotelId } = {}
    /\ { m \in db.hotels_options_map : m.hotel_id = NewHotelId } = {}
    /\ { r \in db.seo_metadata : r.page_type = "hotel" /\ r.page_id = NewHotelId } = {}
    /\ ImageRowsLeft("hotel", NewHotelId) = {}

\* the rows of the store that are not keyed by the room id of this request
ForeignRows(d) ==
  [d EXCEPT
     !.rooms = { r \in @ : r.id # NewRoomId },
     !.room_options_map = { r \in @ : r.room_id # NewRoomId },
     !.room_base_prices = { r \in @ : r.room_id # NewRoomId },
     !.room_season_base_prices = { r \in @ : r.room_id # NewRoomId },
     !.room_override_prices = { r \in @ : r.room_id # NewRoomId },
     !.seo_metadata = { r \in @ : ~(r.page_type = "room" /\ r.page_id = NewRoomId) },
     !.image_assets = { r \in @ : ~(r.content_type = "room" /\ r.content_id = NewRoomId) }]

\* C18: a room-creation rollback deletes only records keyed by the room id
\* generated in the same request: every room, option link, price tier, SEO record
\* and image record of another room or entity is unchanged by the rollback.
C18_RollbackTouchesOwnRowsOnly ==
  (req.kind = "room" /\ DeleteIssued) => ForeignRows(db) = InitDb

\* the controller rolled back a room that had SEO or image records, every delete
\* succeeded, and the records of the seeded room are all there
C18_Witness ==
  /\ Finished
  /\ req.kind = "room"
  /\ cas.caller = "controller"
  /\ Len(DeletesIssued) = 7
  /\ AllDeletesSucceeded
  /\ ctl.imageResults.kind = "result"
  /\ RoomRowsLeft(NewRoomId) = {}
  /\ ForeignRows(db) = InitDb

\* ------------------------------------------------------------------------
\* Properties of SEO records
\* ------------------------------------------------------------------------
\* the SEO loop was left
SeoLoopLeft == pc \in {"ctlImages", "ctlCheck", "batchCheck"} \/ (Finished /\ resp.success)

\* the outcomes recorded for language l: records created plus failures reported
SeoOutcomes(l) ==
  Cardinality({ j \in DOMAIN ctl.seoResults : ctl.seoResults[j].lang = l })
  + Cardinality({ j \in DOMAIN ctl.seoErrors : ctl.seoErrors[j].lang = l })

SeoSummaryTotal ==
  IF req.kind = "seo" THEN resp.summary.success + resp.summary.failed
  ELSE resp.summary.seo_created + resp.summary.seo_failed

\* C19: in room creation, hotel creation and the standalone SEO batch every
\* requested SEO entry is attempted exactly once whatever the outcome of the
\* earlier entries, and created records plus reported failures equal the number
\* of requested entries.
C19_EverySeoEntryAttemptedOnce ==
  /\ Len(ctl.seoResults) + Len(ctl.seoErrors) = ctl.seoIdx - 1
  /\ \A i \in 1..(ctl.seoIdx - 1) : SeoOutcomes(req.seo_data[i].lang) = 1
  /\ SeoLoopLeft => Len(ctl.seoResults) + Len(ctl.seoErrors) = Len(req.seo_data)
  /\ (Finished /\ resp.success /\ req.kind # "image") => SeoSummaryTotal = Len(req.seo_data)

\* a standalone batch whose first entry failed and whose second entry was created
C19_Witness ==
  /\ Finished
  /\ req.kind = "seo"
  /\ Len(req.seo_data) = 2
  /\ Len(ctl.seoErrors) = 1 /\ ctl.seoErrors[1].lang = req.seo_data[1].lang
  /\ Len(ctl.seoResults) = 1 /\ ctl.seoResults[1].lang = req.seo_data[2].lang
  /\ resp.status = 207
  /\ resp.summary.total = 2

\* C20: no two stored SEO records have the same (page_type, page_id, lang) triple.
\* Stated for the records that name a page.
C20_SeoTripleUnique ==
  \A a, b \in db.seo_metadata :
    (a.page_id # Null /\ a.page_type = b.page_type /\ a.page_id = b.page_id /\ a.lang = b.lang)
      => a = b

\* ------------------------------------------------------------------------
\* Properties of the uniqueness of room names
\* ------------------------------------------------------------------------
\* C11: after any sequence of room-creation requests handled one at a time, no
\* two room rows of the same hotel have equal name_th or equal name_en, also when
\* the Thai name of the new room matches one room and its English name another.
C11_RoomNamesUnique ==
  Finished =>
    \A a, b \in db.rooms :
      (a # b /\ a.hotel_id = b.hotel_id) => (a.name_th # b.name_th /\ a.name_en # b.name_en)

\* an earlier request with the payload of this one was answered with success
Resubmitted ==
  /\ Finished
  /\ \E i \in DOMAIN others : others[i].req = req /\ others[i].resp.success

\* C12: after a room creation has succeeded, submitting the identical payload
\* again fails with ROOM_EXISTS (409), and the room, option-link and price-tier
\* rows of the store are the same as before the second submission.
C12_ResubmitIsConflict ==
  Resubmitted =>
    /\ resp.status = 409
    /\ resp.code = "ROOM_EXISTS"
    /\ \A t \in {"rooms"} \cup DependentTables : db[t] = others[Len(others)].db[t]

\* the two requests of the run
BothAnswered == pc = "done" /\ Len(others) = 1 /\ others[1].pc = "done"

Winners ==
  (IF resp.success THEN {createdRoomId} ELSE {})
  \cup (IF others[1].resp.success THEN {others[1].createdRoomId} ELSE {})

RowKey(t, r) ==
  IF t = "rooms" THEN r.id
  ELSE IF t = "seo_metadata" THEN r.page_id
  ELSE IF t = "image_assets" THEN r.content_id
  ELSE r.room_id

\* C13: for any interleaving of two concurrent room-creation requests with the
\* same names and hotel, on a store that enforces name uniqueness on insert, at
\* most one request ends with a 2xx, at most one room row with that name exists
\* afterwards, and every row written during the run belongs to the room of the
\* request that ended with a 2xx: the other request leaves no option link, price
\* tier, SEO record or image record behind.
C13_OneWinner ==
  BothAnswered =>
    /\ ~(resp.success /\ others[1].resp.success)
    /\ Cardinality({ r \in db.rooms : r.hotel_id = req.hotel_id
                       /\ (r.name_th = req.name_th \/ r.name_en = req.name_en) }) <= 1
    /\ \A t \in {"rooms", "seo_metadata", "image_assets"} \cup DependentTables :
         \A r \in db[t] \ InitDb[t] : RowKey(t, r) \in Winners

\* both requests passed the name check, one insert was refused by the store, the
\* other request created the room with its SEO record
C13_Witness ==
  /\ BothAnswered
  /\ \/ resp.success /\ Len(ctl.seoResults) = 1 /\ others[1].err.code = "DUPLICATE_ROOM"
     \/ others[1].resp.success /\ Len(others[1].ctl.seoResults) = 1 /\ err.code = "DUPLICATE_ROOM"
  /\ Cardinality(db.rooms) = 2

\* C21: creating an SEO record whose slug is already stored for a different page
\* of the same page_type is rejected, whatever the languages of the two records:
\* after a request no two records of one page_type with different page ids share
\* a slug.  Stated for the records that name a page.
C21_SlugUniquePerPageType ==
  Finished =>
    \A a, b \in db.seo_metadata :
      (a.page_id # Null /\ b.page_id # Null /\ a.page_type = b.page_type /\ a.slug = b.slug)
        => a.page_id = b.page_id

\* ------------------------------------------------------------------------
\* Properties of the course of a room creation
\* ------------------------------------------------------------------------
\* C26: every failure response of POST /api/room, whatever its cause, has
\* success = false, a message, and an error object with a machine-readable code.
C26_FailureHasCode ==
  (Finished /\ req.kind = "room" /\ ~resp.success) =>
    /\ resp.status >= 400
    /\ resp.message # Undefined
    /\ resp.code # Undefined

ServiceTables ==
  {"room_options_map", "room_base_prices", "room_season_base_prices", "room_override_prices"}

\* the dependent collections the request asks for; the base price is mandatory
RequestedTables ==
  {"room_base_prices"}
  \cup (IF Len(req.option_ids) > 0 THEN {"room_options_map"} ELSE {})
  \cup (IF Len(req.seasons) > 0 THEN {"room_season_base_prices"} ELSE {})
  \cup (IF Len(req.overrides) > 0 THEN {"room_override_prices"} ELSE {})

FanoutWriteAt(j) == ops[j].op = "insert" /\ ops[j].table \in {"seo_metadata", "image_assets"}

\* C27: in room creation the option-link write, the base-price write and the
\* seasonal and override tier writes have all completed before the first SEO or
\* image write is attempted; if one of them failed, no SEO or image write is
\* attempted at all.
C27_DependentsBeforeFanout ==
  req.kind = "room" =>
    \A j \in DOMAIN ops : FanoutWriteAt(j) =>
      /\ \A i \in DOMAIN ops :
           (ops[i].op = "insert" /\ ops[i].table \in ServiceTables) => (i < j /\ ops[i].ok)
      /\ \A t \in RequestedTables :
           \E i \in 1..(j - 1) : ops[i].op = "insert" /\ ops[i].table = t

\* a room with option links, a seasonal and an override tier whose SEO record and
\* images were written after them
C27_Witness ==
  /\ Finished
  /\ req.kind = "room"
  /\ RequestedTables = ServiceTables
  /\ \E j \in DOMAIN ops : ops[j].op = "insert" /\ ops[j].table = "seo_metadata"
  /\ \E j \in DOMAIN ops : ops[j].op = "insert" /\ ops[j].table = "image_assets"
  /\ resp.success

RoomWritten == \E i \in DOMAIN ops : ops[i] = [op |-> "insert", table |-> "rooms", ok |-> TRUE]

\* the state of the creation, read off the position of the request and its answer
Phase ==
  IF pc = "done"
  THEN IF resp.status = 201 THEN "SUCCEEDED"
       ELSE IF resp.status = 207 THEN "PARTIAL"
       ELSE IF RoomWritten THEN "ROLLED_BACK"
       ELSE "FAILED"
  ELSE IF ~RoomWritten THEN "VALIDATING"
  ELSE IF pc \in {"svcCreateRoomOptions", "svcCreateBasePrice", "svcCreateSeasonPrices",
                  "svcCreateOverridePrices"} THEN "PRIMARY_WRITTEN"
  ELSE IF pc \in {"svcReturn", "ctlSeo", "ctlImages", "ctlCheck"} THEN "DEPENDENTS_WRITTEN"
  ELSE "ROLLING_BACK"

PhaseSteps ==
  { <<"VALIDATING", "PRIMARY_WRITTEN">>, <<"VALIDATING", "FAILED">>,
    <<"PRIMARY_WRITTEN", "DEPENDENTS_WRITTEN">>, <<"PRIMARY_WRITTEN", "ROLLING_BACK">>,
    <<"DEPENDENTS_WRITTEN", "SUCCEEDED">>, <<"DEPENDENTS_WRITTEN", "PARTIAL">>,
    <<"DEPENDENTS_WRITTEN", "ROLLING_BACK">>, <<"ROLLING_BACK", "ROLLED_BACK">> }

TerminalPhases == {"SUCCEEDED", "PARTIAL", "ROLLED_BACK", "FAILED"}

RoomCreationStep ==
  /\ Phase' = Phase \/ <<Phase, Phase'>> \in PhaseSteps
  /\ (Len(ops') > Len(ops) /\ ops'[Len(ops')].op = "delete")
       => (RoomWritten /\ Phase' \in {"ROLLING_BACK", "ROLLED_BACK"})
  /\ Phase \in TerminalPhases => (db' = db /\ ops' = ops)
  /\ Cardinality({ i \in DOMAIN ops' : ops'[i].op = "delete" /\ ops'[i].table = "rooms" }) <= 1

\* C25: each room creation moves only along VALIDATING, PRIMARY_WRITTEN,
\* DEPENDENTS_WRITTEN and then SUCCEEDED, PARTIAL or ROLLED_BACK; a compensating
\* delete is issued only after the room row was written; once the request has
\* reached SUCCEEDED, PARTIAL or ROLLED_BACK it performs no further write or delete,
\* and the rollback runs at most once.
C25_RoomCreationPhases == [][req.kind = "room" => RoomCreationStep]_vars

\* a creation that went through PRIMARY_WRITTEN and DEPENDENTS_WRITTEN and was
\* rolled back by the controller
C25_Witness ==
  /\ req.kind = "room"
  /\ Phase = "ROLLED_BACK"
  /\ ctl.createdId # Null
  /\ Len(DeletesIssued) = 7

\* ------------------------------------------------------------------------
\* Properties of checkRoomDateOverlaps
\* ------------------------------------------------------------------------
\* the seasonal tiers of the room taken together with the proposed ones
SeasonsTogether ==
  { [src |-> 0, name |-> r.name, start_date |-> r.start_date, end_date |-> r.end_date]
      : r \in { e \in db.room_season_base_prices : e.room_id = ov.roomId } }
  \cup { [src |-> i, name |-> ov.seasons[i].name, start_date |-> ov.seasons[i].start_date,
          end_date |-> ov.seasons[i].end_date] : i \in DOMAIN ov.seasons }

\* the active override tiers of the room taken together with the proposed active ones
OverridesTogether ==
  { [src |-> 0, name |-> r.name, start_date |-> r.start_date, end_date |-> r.end_date]
      : r \in { e \in db.room_override_prices : e.room_id = ov.roomId /\ e.is_active } }
  \cup { [src |-> i, name |-> ov.overrides[i].name, start_date |-> ov.overrides[i].start_date,
          end_date |-> ov.overrides[i].end_date]
           : i \in { j \in DOMAIN ov.overrides : ov.overrides[j].is_active = JsonTrue } }

SeasonConflict == \E a, b \in SeasonsTogether : a # b /\ ShareDay(a, b)

OverrideConflict == \E a, b \in OverridesTogether : a # b /\ ShareDay(a, b)

\* C29: checkRoomDateOverlaps reports SEASON_OVERLAP whenever two ranges among the
\* room's seasonal tiers taken together with the proposed ones overlap, and
\* OVERRIDE_OVERLAP whenever two among the active override tiers do, two proposed
\* tiers that overlap each other included.
C29_AllPairsChecked ==
  ov.pc = "return" =>
    /\ SeasonConflict => ov.result = "SEASON_OVERLAP"
    /\ (~SeasonConflict /\ OverrideConflict) => ov.result = "OVERRIDE_OVERLAP"

\* ------------------------------------------------------------------------
\* Image collections: POST /api/image-collection
\* ------------------------------------------------------------------------
ImageRequest == req.kind = "image"

\* the image records of the entity the request names
EntityImages(d) ==
  { r \in d.image_assets : r.content_type = req.content_type /\ r.content_id = req.content_id }

EntityCovers(d) == { r \in EntityImages(d) : r.is_cover = TRUE }

\* the entries of the batch that ask for a cover record
CoverEntries(images) == { i \in DOMAIN images : StoredBoolean(images[i].is_cover) }

SameUrlTwice(images) ==
  \E i, j \in DOMAIN images : i # j /\ images[i].url = images[j].url

\* C22: an image batch with two entries of the same URL, with no cover entry or
\* with more than one cover entry is rejected, and the request inserts or modifies
\* no image record.
C22_BadBatchRejected ==
  (Finished /\ ImageRequest
     /\ (SameUrlTwice(req.images) \/ Cardinality(CoverEntries(req.images)) # 1))
    => (resp.status = 400 /\ db.image_assets = InitDb.image_assets)

\* C23: after an image-collection creation with a validated batch at most one
\* image record of the entity is a cover, and while the request inserts its images
\* with a new cover no record the entity had before is still a cover.
C23_OneCoverSequential ==
  ImageRequest =>
    /\ Finished => Cardinality(EntityCovers(db)) <= 1
    /\ (pc = "imgInsert" /\ CoverImages(req.images) # {}) =>
         \A r \in EntityCovers(db) : r \notin InitDb.image_assets

\* the records created by the request
ImagesCreated == { r \in db.image_assets : r.id \notin { x.id : x \in InitDb.image_assets } }

\* the request passed validation and createImageCollection has ended
ImageServiceEnded ==
  ImageRequest /\ Finished /\ ~(resp.status = 400 /\ resp.code = Undefined)

\* the call of createImageCollection by the room or hotel controller has ended
EmbeddedImageCallEnded ==
  req.kind \in {"room", "hotel"} /\ pc = "ctlCheck" /\ Len(req.images) > 0

EmbeddedImagesCreated == { r \in db.image_assets : r.content_id = ctl.createdId }

SummaryAddsUp(summary, total, created) ==
  /\ summary.success + summary.failed = summary.total
  /\ summary.total = total
  /\ summary.success = created

\* C28: createImageCollection ends in an error exactly when no image was created,
\* returns 201 exactly when every requested image was created and 207 otherwise;
\* in a result summary.success + summary.failed = summary.total = the number of
\* requested images.
C28_ImageOutcome ==
  /\ ImageServiceEnded =>
       LET n == Cardinality(ImagesCreated)
           total == Len(req.images)
       IN /\ ~resp.success <=> n = 0
          /\ resp.status = 201 <=> n = total
          /\ (resp.success /\ n < total) => resp.status = 207
          /\ resp.success => SummaryAddsUp(resp.summary, total, n)
  /\ EmbeddedImageCallEnded =>
       LET n == Cardinality(EmbeddedImagesCreated)
           total == Len(req.images)
           result == ctl.imageResults
       IN /\ result.kind = "error" <=> n = 0
          /\ result.status = 201 <=> n = total
          /\ (result.kind = "result" /\ n < total) => result.status = 207
          /\ result.kind = "result" => SummaryAddsUp(result.summary, total, n)

\* a partial result of the endpoint: one image created, one reported
C28_Witness ==
  /\ ImageServiceEnded
  /\ resp.status = 207
  /\ Cardinality(ImagesCreated) = 1
  /\ Len(req.images) = 2

\* C30: when createImageCollection ends with ALL_DUPLICATES or ALL_FAILED the
\* image records of the entity are as they were before the call.
C30_ErrorLeavesImages ==
  (ImageRequest /\ Finished /\ resp.code \in {"ALL_DUPLICATES", "ALL_FAILED"})
    => EntityImages(db) = EntityImages(InitDb)

\* C24: while two image-collection creations for one entity, each with one cover
\* image, are in flight together, the entity never has two image records that are
\* covers.
C24_OneCoverConcurrent ==
  ImageRequest => Cardinality(EntityCovers(db)) <= 1

====
